---- MODULE Spec2Model ----
(***************************************************************************)
(* Model of the adaptive quadtree Mandelbrot renderer:                     *)
(*   quadtree.py                          QuadTree.split / fill_array      *)
(*   Accelerated/normal_quadtree.py       plain border scan                *)
(*   Accelerated/mixed_quadtree.py        mixed border scan                *)
(*   Accelerated/raster.py                raster pass                      *)
(*   Accelerated/accelerated_mandelbrot.py  AcceleratedMandelbrot.generate *)
(*                                                                         *)
(* A point is the pair <<x, y>> (column, row): p[1] is the source's p[0]   *)
(* and p[2] is the source's p[1].  A 2-d array is a function from row      *)
(* index 0..R-1 to a function from column index 0..C-1, read array[i][j].  *)
(***************************************************************************)
EXTENDS Integers, Sequences, FiniteSets, TLC

VARIABLES
    \* ---- QuadTree object exercised on its own (SpecQT) ----
    node,       \* the QuadTree instance: tl, br, children
    array,      \* the 2-d array handed to fill_array
    raised,     \* message of the exception the last call raised, "" if none
    call,       \* the last call: operation, arguments, state before it
    \* ---- AcceleratedMandelbrot (Spec) ----
    size,           \* self.size = <<width, height>>
    raster,         \* self.raster
    mixed_raster,   \* self.mixed_raster
    fast_quadtree,  \* self.fast_quadtree
    calc,           \* calc[i][j]: what calculate(x[j], y[i], ...) returns,
                    \* <<in-set flag, r, g, b>>
    pixels,         \* self.pixels[i][j], an <<r, g, b>> triple
    seen,           \* the seen mask of the mixed strategies
    queue,          \* the deque of pending QuadTree nodes
    interval,       \* the batch of regions handed to the parallel scan
    result_list,    \* the rows the parallel scan returned, not yet consumed
    temp_interval,  \* the next batch under construction
    pc,             \* where generate() is
    writes,         \* writes[i][j]: number of assignments to pixels[i][j]
    ops,            \* kinds of operation generate() has performed so far
    scans,          \* the border scans made so far, in order: region and row returned
    \* ---- calculate, the point evaluator, called on its own (SpecEval) ----
    ev,             \* the call's arguments, its locals by their source names,
                    \* its position pc and what it returned
    \* ---- main.py and runner_functions.py: one run of the program (SpecMain) ----
    app             \* the configuration asked for, config['color_scheme'], the
                    \* position pc, the exception raised and the scheme chosen

qtvars == <<node, array, raised, call>>
rvars == <<size, raster, mixed_raster, fast_quadtree, calc, pixels, seen, queue,
           interval, result_list, temp_interval, pc, writes, ops, scans>>
vars == <<qtvars, rvars, ev, app>>

----------------------------------------------------------------------------
(* Bounds *)

MaxCoord == 6       \* regions of the QuadTree runs lie in 0..MaxCoord
MaxBoundary == 2    \* boundary arguments of the QuadTree runs: 0..MaxBoundary
MaxWidth == 6       \* rendered images are 1..MaxWidth pixels wide
MaxHeight == 5      \* and 1..MaxHeight pixels high

----------------------------------------------------------------------------
(* quadtree.py *)

X(p) == p[1]
Y(p) == p[2]

\* QuadTree.__init__
QuadTree(top_left, bottom_right) ==
    [tl |-> top_left, br |-> bottom_right,
     rows |-> Y(bottom_right) - Y(top_left),
     cols |-> X(bottom_right) - X(top_left),
     children |-> <<>>]

\* split_children with the cuts rounded up instead of down
split_children_ceil(tl, br) ==
    LET cols == X(br) - X(tl)
        rows == Y(br) - Y(tl)
        smaller_box_size == <<(cols + 1) \div 2, (rows + 1) \div 2>>
    IN  IF rows = 1 /\ cols = 1 THEN
            << QuadTree(tl, br) >>
        ELSE IF rows = 1 THEN
            << QuadTree(tl, <<X(tl) + smaller_box_size[1], Y(br)>>),
               QuadTree(<<X(tl) + smaller_box_size[1], Y(tl)>>, br) >>
        ELSE IF cols = 1 THEN
            << QuadTree(tl, <<X(br), Y(tl) + smaller_box_size[2]>>),
               QuadTree(<<X(tl), Y(tl) + smaller_box_size[2]>>, br) >>
        ELSE
            << QuadTree(tl, <<X(tl) + smaller_box_size[1], Y(tl) + smaller_box_size[2]>>),
               QuadTree(<<X(tl) + smaller_box_size[1], Y(tl)>>,
                        <<X(br), Y(tl) + smaller_box_size[2]>>),
               QuadTree(<<X(tl), Y(tl) + smaller_box_size[2]>>,
                        <<X(tl) + smaller_box_size[1], Y(br)>>),
               QuadTree(<<X(tl) + smaller_box_size[1], Y(tl) + smaller_box_size[2]>>, br) >>

\* the children list QuadTree.split builds, once the inset is known to be
\* at least 1 x 1
split_children(tl, br) ==
    LET cols == X(br) - X(tl)
        rows == Y(br) - Y(tl)
        smaller_box_size == <<cols \div 2, rows \div 2>>
    IN  IF rows = 1 /\ cols = 1 THEN
            << QuadTree(tl, br) >>
        ELSE IF rows = 1 THEN
            << QuadTree(tl, <<X(tl) + smaller_box_size[1], Y(br)>>),
               QuadTree(<<X(tl) + smaller_box_size[1], Y(tl)>>, br) >>
        ELSE IF cols = 1 THEN
            << QuadTree(tl, <<X(br), Y(tl) + smaller_box_size[2]>>),
               QuadTree(<<X(tl), Y(tl) + smaller_box_size[2]>>, br) >>
        ELSE
            << QuadTree(tl, <<X(tl) + smaller_box_size[1], Y(tl) + smaller_box_size[2]>>),
               QuadTree(<<X(tl) + smaller_box_size[1], Y(tl)>>,
                        <<X(br), Y(tl) + smaller_box_size[2]>>),
               QuadTree(<<X(tl), Y(tl) + smaller_box_size[2]>>,
                        <<X(tl) + smaller_box_size[1], Y(br)>>),
               QuadTree(<<X(tl) + smaller_box_size[1], Y(tl) + smaller_box_size[2]>>, br) >>

\* split raising only when both inset dimensions are below 1
split_raise_both(self, boundary) ==
    LET tl == <<X(self.tl) + boundary, Y(self.tl) + boundary>>
        br == <<X(self.br) - boundary, Y(self.br) - boundary>>
        cols == X(br) - X(tl)
        rows == Y(br) - Y(tl)
    IN  IF rows < 1 /\ cols < 1
        THEN [raised |-> "Cannot split node.", self |-> self]
        ELSE [raised |-> "", self |-> [self EXCEPT !.children = split_children(tl, br)]]

\* split with the bottom-right corner left where it is (only tl is inset)
split_br_not_inset(self, boundary) ==
    LET tl == <<X(self.tl) + boundary, Y(self.tl) + boundary>>
        br == self.br
        cols == X(br) - X(tl)
        rows == Y(br) - Y(tl)
    IN  IF rows < 1 \/ cols < 1
        THEN [raised |-> "Cannot split node.", self |-> self]
        ELSE [raised |-> "", self |-> [self EXCEPT !.children = split_children(tl, br)]]

\* QuadTree.split: the exception raised ("" if none) and the node after the call
split(self, boundary) ==
    LET tl == <<X(self.tl) + boundary, Y(self.tl) + boundary>>
        br == <<X(self.br) - boundary, Y(self.br) - boundary>>
        cols == X(br) - X(tl)
        rows == Y(br) - Y(tl)
    IN  IF rows < 1 \/ cols < 1
        THEN [raised |-> "Cannot split node.", self |-> self]
        ELSE [raised |-> "", self |-> [self EXCEPT !.children = split_children(tl, br)]]

\* len(array) and len(array[0])
NumRows(arr) == Cardinality(DOMAIN arr)
NumCols(arr) == Cardinality(DOMAIN arr[0])

\* a slice bound k of a numpy axis of length n: negative bounds count from
\* the end, and the result is clipped to 0..n
slice_index(k, n) ==
    IF k < 0 THEN (IF k + n < 0 THEN 0 ELSE k + n)
    ELSE IF k > n THEN n ELSE k

\* the guard of QuadTree.fill_array
fill_array_raises(self, arr) ==
    NumRows(arr) < Y(self.br) /\ NumCols(arr) < X(self.br)

\* fill_array_assign with the boundary applied to the top-left corner only
fill_array_assign_tl_only(self, arr, value, boundary) ==
    LET r0 == slice_index(Y(self.tl) + boundary, NumRows(arr))
        r1 == slice_index(Y(self.br), NumRows(arr))
        c0 == slice_index(X(self.tl) + boundary, NumCols(arr))
        c1 == slice_index(X(self.br), NumCols(arr))
    IN  [i \in DOMAIN arr |->
            [j \in DOMAIN arr[i] |->
                IF r0 <= i /\ i < r1 /\ c0 <= j /\ j < c1 THEN value ELSE arr[i][j]]]

\* fill_array_assign with slices left open at the end, [tl + boundary:]
fill_array_assign_open_end(self, arr, value, boundary) ==
    LET r0 == slice_index(Y(self.tl) + boundary, NumRows(arr))
        c0 == slice_index(X(self.tl) + boundary, NumCols(arr))
    IN  [i \in DOMAIN arr |->
            [j \in DOMAIN arr[i] |->
                IF r0 <= i /\ c0 <= j THEN value ELSE arr[i][j]]]

\* the slice assignment of QuadTree.fill_array
fill_array_assign(self, arr, value, boundary) ==
    LET r0 == slice_index(Y(self.tl) + boundary, NumRows(arr))
        r1 == slice_index(Y(self.br) - boundary, NumRows(arr))
        c0 == slice_index(X(self.tl) + boundary, NumCols(arr))
        c1 == slice_index(X(self.br) - boundary, NumCols(arr))
    IN  [i \in DOMAIN arr |->
            [j \in DOMAIN arr[i] |->
                IF r0 <= i /\ i < r1 /\ c0 <= j /\ j < c1 THEN value ELSE arr[i][j]]]

\* QuadTree.fill_array: the exception raised ("" if none) and the array after
fill_array(self, arr, value, boundary) ==
    IF fill_array_raises(self, arr)
    THEN [raised |-> "Array too small", array |-> arr]
    ELSE [raised |-> "", array |-> fill_array_assign(self, arr, value, boundary)]

----------------------------------------------------------------------------
(* The QuadTree object on its own, as its unit tests use it: a node is     *)
(* constructed, then split is called on it, or fill_array is called on it  *)
(* with an array of zeros, once or twice in a row.                         *)

Points == (0..MaxCoord) \X (0..MaxCoord)

NoCall == [op |-> "none", boundary |-> 0, value |-> 0, node |-> <<>>, array |-> <<>>]

\* the values handed to fill_array
FillValues == {1, 2}

\* array shapes <<rows, columns>> around a region's bounds: exact, larger,
\* and one short in rows, in columns, in both
ArrayShapes(q) ==
    { shape \in { <<Y(q.br), X(q.br)>>, <<Y(q.br) + 1, X(q.br) + 1>>,
                  <<Y(q.br) - 1, X(q.br)>>, <<Y(q.br), X(q.br) - 1>>,
                  <<Y(q.br) - 1, X(q.br) - 1>> } :
        shape[1] >= 1 /\ shape[2] >= 1 }

zeros(rows, cols) == [i \in 0..(rows - 1) |-> [j \in 0..(cols - 1) |-> 0]]

InitQT ==
    /\ \E tl \in Points, br \in Points :
          /\ X(tl) < X(br) /\ Y(tl) < Y(br)
          /\ node = QuadTree(tl, br)
    /\ \E shape \in ArrayShapes(node) : array = zeros(shape[1], shape[2])
    /\ raised = ""
    /\ call = NoCall
    /\ size = <<1, 1>> /\ raster = FALSE /\ mixed_raster = FALSE /\ fast_quadtree = FALSE
    /\ calc = <<>> /\ pixels = <<>> /\ seen = <<>> /\ queue = <<>> /\ interval = <<>>
    /\ result_list = <<>> /\ temp_interval = <<>> /\ pc = "idle" /\ writes = <<>>
    /\ ops = {} /\ scans = <<>>
    /\ ev = <<>> /\ app = <<>>

QTSplit ==
    \E boundary \in 0..MaxBoundary :
        LET res == split(node, boundary)
        IN  /\ call.op = "none" \/ (call.op = "split" /\ call.node.children = <<>>)
            /\ node' = res.self
            /\ raised' = res.raised
            /\ call' = [op |-> "split", boundary |-> boundary, value |-> 0,
                        node |-> node, array |-> array]
            /\ UNCHANGED array
            /\ UNCHANGED <<rvars, ev, app>>

QTFill ==
    \E boundary \in 0..MaxBoundary, value \in FillValues :
        LET res == fill_array(node, array, value, boundary)
        IN  /\ call.op = "none"
               \/ (call.op = "fill" /\ call.array = zeros(NumRows(array), NumCols(array)))
            /\ array' = res.array
            /\ raised' = res.raised
            /\ call' = [op |-> "fill", boundary |-> boundary, value |-> value,
                        node |-> node, array |-> array]
            /\ UNCHANGED node
            /\ UNCHANGED <<rvars, ev, app>>

NextQT == QTSplit \/ QTFill

SpecQT == InitQT /\ [][NextQT]_vars

----------------------------------------------------------------------------
(* Accelerated/normal_quadtree.py *)

\* calculate(...)[1:], the colour part of an evaluation
colour(row) == SubSeq(row, 2, 4)

\* np.array([-1, -1, -1], dtype=np.uint8)
unset_border == <<255, 255, 255>>

\* The two loops of a border scan evaluate 2 * cols + 2 * rows pixels: for
\* each column i the top then the bottom one, then for each row j the left
\* then the right one.  The k-th of them, as <<row, column>>:
border_visit(tl, br, k) ==
    IF k <= 2 * (X(br) - X(tl))
    THEN IF k % 2 = 1 THEN <<Y(tl), X(tl) + ((k - 1) \div 2)>>
                      ELSE <<Y(br) - 1, X(tl) + ((k - 1) \div 2)>>
    ELSE IF (k - 2 * (X(br) - X(tl))) % 2 = 1
         THEN <<Y(tl) + ((k - 2 * (X(br) - X(tl)) - 1) \div 2), X(tl)>>
         ELSE <<Y(tl) + ((k - 2 * (X(br) - X(tl)) - 1) \div 2), X(br) - 1>>

border_visits(tl, br) ==
    [k \in 1..(2 * (X(br) - X(tl)) + 2 * (Y(br) - Y(tl))) |-> border_visit(tl, br, k)]

\* the assignments pixels[row][column] = colour a border scan makes, in order
border_events(tl, br) ==
    [k \in 1..(2 * (X(br) - X(tl)) + 2 * (Y(br) - Y(tl))) |->
        [cell |-> border_visit(tl, br, k),
         value |-> colour(calc[border_visit(tl, br, k)[1]][border_visit(tl, br, k)[2]])]]

\* quadtree_visit without the comparison of the right pixel of a row
quadtree_visit_no_right(st, tl, br, k, c) ==
    IF k = 1 /\ k <= 2 * (X(br) - X(tl)) /\ ~st.border_set
    THEN [st EXCEPT !.border = c]
    ELSE [split |-> IF /\ ~st.split /\ X(br) - X(tl) >= 3 /\ Y(br) - Y(tl) >= 3
                       /\ ~(k > 2 * (X(br) - X(tl)) /\ (k - 2 * (X(br) - X(tl))) % 2 = 0)
                    THEN st.split \/ (st.border # c) ELSE st.split,
          border_set |-> TRUE,
          border |-> st.border]

\* quadtree_visit without the test on the region's dimensions
quadtree_visit_any_size(st, tl, br, k, c) ==
    IF k = 1 /\ k <= 2 * (X(br) - X(tl)) /\ ~st.border_set
    THEN [st EXCEPT !.border = c]
    ELSE [split |-> st.split \/ (st.border # c),
          border_set |-> TRUE,
          border |-> st.border]

\* what calculate_quadtree does with the colour c of the k-th pixel it
\* evaluates: the top pixel of the first column becomes the border colour;
\* every other one goes through
\*   `if not split and cols >= 3 and rows >= 3:
\*        split |= not np.array_equal(border, c)`
\* and border_set is true from the end of the first column on
quadtree_visit(st, tl, br, k, c) ==
    IF k = 1 /\ k <= 2 * (X(br) - X(tl)) /\ ~st.border_set
    THEN [st EXCEPT !.border = c]
    ELSE [split |-> IF ~st.split /\ X(br) - X(tl) >= 3 /\ Y(br) - Y(tl) >= 3
                    THEN st.split \/ (st.border # c) ELSE st.split,
          border_set |-> TRUE,
          border |-> st.border]

\* the two loops of calculate_quadtree from the k-th evaluation on
RECURSIVE quadtree_scan(_, _, _, _, _)
quadtree_scan(st, tl, br, events, k) ==
    IF k > Len(events) THEN st
    ELSE quadtree_scan(quadtree_visit(st, tl, br, k, events[k].value), tl, br, events, k + 1)

\* the row calculate_quadtree returns once its loops have ended in state st
quadtree_result(st) ==
    <<IF st.split THEN 1 ELSE 0, st.border[1], st.border[2], st.border[3]>>

\* calculate_quadtree: the returned row <<split, r, g, b>> and the
\* assignments made to pixels, in order
calculate_quadtree(tl, br) ==
    IF Y(br) - Y(tl) = 1 /\ X(br) - X(tl) = 1 THEN
        [result |-> <<0>> \o colour(calc[Y(tl)][X(tl)]), events |-> <<>>]
    ELSE
        [result |-> quadtree_result(
                        quadtree_scan([split |-> FALSE, border_set |-> FALSE,
                                       border |-> unset_border],
                                      tl, br, border_events(tl, br), 1)),
         events |-> border_events(tl, br)]

\* compute_fast_quadtree handing every region the row of the first one
compute_fast_quadtree_first_row(intervals) ==
    [k \in 1..Len(intervals) |->
        [result |-> calculate_quadtree(intervals[1][1], intervals[1][2]).result,
         events |-> calculate_quadtree(intervals[k][1], intervals[k][2]).events]]

\* compute_fast_quadtree: calculate_quadtree on every row of intervals, giving
\* the row stored in results[k] and the assignments the k-th scan makes
compute_fast_quadtree(intervals) ==
    [k \in 1..Len(intervals) |-> calculate_quadtree(intervals[k][1], intervals[k][2])]

----------------------------------------------------------------------------
(* Accelerated/mixed_quadtree.py *)

\* what calculate_mixed does with the k-th evaluation row (in-set flag and
\* colour): in the `for i` loop border is taken before hasMandelbrot is
\* updated, in the `for j` loop after it
mixed_visit(st, tl, br, k, row) ==
    IF k <= 2 * (X(br) - X(tl))
    THEN [border |-> IF ~st.hasMandelbrot /\ row[1] = 1 THEN colour(row) ELSE st.border,
          isMandelbrot |-> st.isMandelbrot /\ row[1] = 1,
          hasMandelbrot |-> st.hasMandelbrot \/ row[1] = 1]
    ELSE [border |-> IF ~(st.hasMandelbrot \/ row[1] = 1) /\ row[1] = 1
                     THEN colour(row) ELSE st.border,
          isMandelbrot |-> st.isMandelbrot /\ row[1] = 1,
          hasMandelbrot |-> st.hasMandelbrot \/ row[1] = 1]

\* the two loops of calculate_mixed from the k-th evaluation on
RECURSIVE mixed_scan(_, _, _, _, _)
mixed_scan(st, tl, br, visits, k) ==
    IF k > Len(visits) THEN st
    ELSE mixed_scan(mixed_visit(st, tl, br, k, calc[visits[k][1]][visits[k][2]]),
                    tl, br, visits, k + 1)

\* mixed_result without the test on the region's dimensions
mixed_result_any_size(st, tl, br) ==
    <<IF st.isMandelbrot # st.hasMandelbrot THEN 1 ELSE 0,
      IF ~st.isMandelbrot THEN 0 ELSE 1,
      st.border[1], st.border[2], st.border[3]>>

\* the row calculate_mixed returns once its loops have ended in state st
mixed_result(st, tl, br) ==
    <<IF st.isMandelbrot # st.hasMandelbrot /\ X(br) - X(tl) >= 3 /\ Y(br) - Y(tl) >= 3
      THEN 1 ELSE 0,
      IF ~st.isMandelbrot THEN 0 ELSE 1,
      st.border[1], st.border[2], st.border[3]>>

\* calculate_mixed: the returned row, <<0, r, g, b>> for a 1 x 1 region and
\* <<split, all-in-set, r, g, b>> otherwise, the assignments made to pixels,
\* in order, and the cells of seen set to True
calculate_mixed(tl, br) ==
    IF Y(br) - Y(tl) = 1 /\ X(br) - X(tl) = 1 THEN
        [result |-> <<0>> \o colour(calc[Y(tl)][X(tl)]),
         events |-> <<>>,
         seen |-> { <<Y(tl), X(tl)>> }]
    ELSE
        [result |-> mixed_result(
                        mixed_scan([isMandelbrot |-> TRUE, hasMandelbrot |-> FALSE,
                                    border |-> <<0, 0, 0>>],
                                   tl, br, border_visits(tl, br), 1),
                        tl, br),
         events |-> border_events(tl, br),
         seen |-> { border_visit(tl, br, k) :
                      k \in 1..(2 * (X(br) - X(tl)) + 2 * (Y(br) - Y(tl))) }]

\* `results[i] = calculate_mixed(...)` in fast_mixed_quadtree, where results
\* has 4 columns: the 4-entry row of a 1 x 1 region is stored as it is; the
\* 5-entry row of any other region does not fit, and if the failed
\* assignment does not end the call the row keeps the zeros it was created with
stored_mixed_row(r) == IF Len(r) = 4 THEN r ELSE <<0, 0, 0, 0>>

\* fast_mixed_quadtree: calculate_mixed on every row of intervals, giving the
\* row returned, the row stored in results[k] and the effects of the k-th scan
fast_mixed_quadtree(intervals) ==
    [k \in 1..Len(intervals) |->
        [returned |-> calculate_mixed(intervals[k][1], intervals[k][2]).result,
         result |-> stored_mixed_row(calculate_mixed(intervals[k][1], intervals[k][2]).result),
         events |-> calculate_mixed(intervals[k][1], intervals[k][2]).events,
         seen |-> calculate_mixed(intervals[k][1], intervals[k][2]).seen]]

\* the assignments of a sequence of scans, one after the other
RECURSIVE all_events(_, _)
all_events(rs, k) ==
    IF k > Len(rs) THEN <<>> ELSE rs[k].events \o all_events(rs, k + 1)

\* pix after the assignments of events, made in order: a cell holds the
\* value of the last assignment to it
assign_events(pix, events) ==
    [i \in DOMAIN pix |-> [j \in DOMAIN pix[i] |->
        LET K == { k \in 1..Len(events) : events[k].cell = <<i, j>> }
        IN  IF K = {} THEN pix[i][j]
            ELSE events[CHOOSE k \in K : \A m \in K : m <= k].value]]

\* the assignment counts after events
count_events(wr, events) ==
    [i \in DOMAIN wr |-> [j \in DOMAIN wr[i] |->
        wr[i][j] + Cardinality({ k \in 1..Len(events) : events[k].cell = <<i, j>> })]]

\* mark_seen keeping only the new marks
mark_seen_only(sn, marked) ==
    [i \in DOMAIN sn |-> [j \in DOMAIN sn[i] |-> <<i, j>> \in marked]]

\* sn with the cells of marked set to True
mark_seen(sn, marked) ==
    [i \in DOMAIN sn |-> [j \in DOMAIN sn[i] |-> sn[i][j] \/ <<i, j>> \in marked]]

----------------------------------------------------------------------------
(* Accelerated/raster.py *)

\* np.zeros(shape=(1, 0), dtype=bool)
empty_seen == [i \in {0} |-> [j \in {} |-> FALSE]]

\* raster_assigns without the look at seen[i, j]
raster_assigns_unseen_or_seen(sn, i, j) == NumCols(sn) # 0

\* the cells compute_raster assigns
raster_assigns(sn, i, j) == NumCols(sn) # 0 /\ ~sn[i][j]

\* compute_raster: pixels and assignment counts after the pass over all
\* i in range(y.shape[0]), j in range(x.shape[0])
compute_raster(pix, sn, wr) ==
    [pixels |-> [i \in DOMAIN pix |-> [j \in DOMAIN pix[i] |->
                    IF raster_assigns(sn, i, j) THEN colour(calc[i][j]) ELSE pix[i][j]]],
     writes |-> [i \in DOMAIN wr |-> [j \in DOMAIN wr[i] |->
                    IF raster_assigns(sn, i, j) THEN wr[i][j] + 1 ELSE wr[i][j]]]]

----------------------------------------------------------------------------
(* Accelerated/accelerated_mandelbrot.py *)

\* what the point evaluator can return for a pixel: in-set flag and colour
EvalRows == { <<1, 255, 255, 255>>, <<0, 0, 0, 0>>, <<0, 100, 100, 100>> }

\* the evaluation tables of a w x h image: one background evaluation, and
\* at most one pixel with another one
CalcTables(w, h) ==
    { [i \in 0..(h - 1) |-> [j \in 0..(w - 1) |->
          IF <<i, j>> = hot THEN other ELSE base]] :
      base \in EvalRows, other \in EvalRows,
      hot \in (0..(h - 1)) \X (0..(w - 1)) }

\* np.zeros((size[1], size[0], 3), dtype=np.uint8)
zero_pixels(w, h) == [i \in 0..(h - 1) |-> [j \in 0..(w - 1) |-> <<0, 0, 0>>]]

\* np.zeros(shape=(self.size[1], self.size[0]), dtype=bool)
zero_seen(w, h) == [i \in 0..(h - 1) |-> [j \in 0..(w - 1) |-> FALSE]]

\* intervals_of with the regions listed from the last to the first
intervals_of_reversed(children) ==
    [k \in 1..Len(children) |-> <<children[Len(children) + 1 - k].tl,
                                  children[Len(children) + 1 - k].br>>]

\* [[quad.tl, quad.br] for quad in children]
intervals_of(children) == [k \in 1..Len(children) |-> <<children[k].tl, children[k].br>>]

\* quadtree.fill_array(self.pixels, border): numpy refuses a border that is
\* not an (r, g, b) triple, whatever the size of the slice
fill_pixels(quadtree, pix, wr, border) ==
    IF fill_array_raises(quadtree, pix) THEN
        [raised |-> "Array too small", pixels |-> pix, writes |-> wr]
    ELSE IF Len(border) # 3 THEN
        [raised |-> "ValueError", pixels |-> pix, writes |-> wr]
    ELSE
        [raised |-> "",
         pixels |-> fill_array_assign(quadtree, pix, border, 1),
         writes |-> [i \in DOMAIN wr |-> [j \in DOMAIN wr[i] |->
                        IF fill_array_assign(quadtree, zero_seen(NumCols(pix), NumRows(pix)),
                                             TRUE, 1)[i][j]
                        THEN wr[i][j] + 1 ELSE wr[i][j]]]]

Init ==
    /\ \E w \in 1..MaxWidth, h \in 1..MaxHeight :
          /\ size = <<w, h>>
          /\ calc \in CalcTables(w, h)
          /\ pixels = zero_pixels(w, h)
          /\ writes = [i \in 0..(h - 1) |-> [j \in 0..(w - 1) |-> 0]]
    /\ raster \in BOOLEAN
    /\ mixed_raster \in BOOLEAN
    /\ \E fq \in BOOLEAN : fast_quadtree = (IF ~raster THEN fq ELSE FALSE)
    /\ seen = <<>> /\ queue = <<>> /\ interval = <<>>
    /\ result_list = <<>> /\ temp_interval = <<>>
    /\ pc = "generate"
    /\ ops = {} /\ scans = <<>>
    /\ ev = <<>> /\ app = <<>>
    /\ raised = ""
    /\ node = QuadTree(<<0, 0>>, <<1, 1>>) /\ array = <<>> /\ call = NoCall

\* generate, `if self.raster:` taken
GenerateRaster ==
    /\ pc = "generate" /\ raster
    /\ \E r \in { compute_raster(pixels, empty_seen, writes) } :
          pixels' = r.pixels /\ writes' = r.writes
    /\ ops' = ops \cup {"raster"}
    /\ pc' = "branch"
    /\ UNCHANGED <<size, raster, mixed_raster, fast_quadtree, calc, seen, queue,
                   interval, result_list, temp_interval, scans, qtvars>>
    /\ UNCHANGED <<ev, app>>

\* self.quad_tree.split(boundary=0) and the set-up of queue, interval, seen
\* at the head of each of the four quadtree paths
RootSplit ==
    /\ pc = "branch" \/ (pc = "generate" /\ ~raster)
    /\ \E sp \in { split(QuadTree(<<0, 0>>, size), 0) } :
          IF sp.raised # ""
          THEN /\ pc' = "error" /\ raised' = sp.raised
               /\ UNCHANGED <<queue, interval, seen>>
          ELSE /\ pc' = "loop" /\ raised' = raised
               /\ queue' = sp.self.children
               /\ interval' = IF fast_quadtree THEN intervals_of(sp.self.children)
                              ELSE interval
               /\ seen' = IF mixed_raster THEN zero_seen(size[1], size[2]) ELSE seen
    /\ ops' = ops \cup {"split"}
    /\ UNCHANGED <<size, raster, mixed_raster, fast_quadtree, calc, pixels, writes,
                   result_list, temp_interval, scans, node, array, call>>
    /\ UNCHANGED <<ev, app>>

\* `if split: ... else: ...` of the plain paths for the region quad_tree
\* dequeued from q and its row result, over the buffer pix and the counts wr:
\* the queue, the regions added to it, the buffer, the exception raised ("" if
\* none) and the operations performed
plain_branch(q, quad_tree, result, pix, wr) ==
    IF result[1] # 0 THEN
        LET extend(sp) ==
                [queue |-> IF sp.raised # "" THEN Tail(q)
                           ELSE Tail(q) \o sp.self.children,
                 children |-> IF sp.raised # "" THEN <<>> ELSE sp.self.children,
                 pixels |-> pix, writes |-> wr,
                 raised |-> sp.raised, ops |-> {"split"}]
        IN  extend(split(quad_tree, 1))
    ELSE
        LET filled(f) ==
                [queue |-> Tail(q), children |-> <<>>,
                 pixels |-> f.pixels, writes |-> f.writes,
                 raised |-> f.raised, ops |-> {"fill"}]
        IN  filled(fill_pixels(quad_tree, pix, wr, SubSeq(result, 2, Len(result))))

\* the body of `while queue:` in normal_quadtree: the row the scan returned
\* and what plain_branch makes of it
normal_quadtree_pass(q, pix, wr) ==
    LET scanned(r) ==
            [result |-> r.result,
             branch |-> plain_branch(q, Head(q), r.result,
                                     assign_events(pix, r.events),
                                     count_events(wr, r.events))]
    IN  scanned(calculate_quadtree(Head(q).tl, Head(q).br))

\* normal_quadtree from its first dequeue to the end: the buffer when the
\* loop ends, by an empty queue or by an exception
RECURSIVE normal_quadtree_loop(_, _, _)
normal_quadtree_loop(q, pix, wr) ==
    LET continue(p) ==
            IF p.raised # "" THEN [pixels |-> p.pixels, writes |-> p.writes,
                                   raised |-> p.raised]
            ELSE normal_quadtree_loop(p.queue, p.pixels, p.writes)
    IN  IF q = <<>> THEN [pixels |-> pix, writes |-> wr, raised |-> ""]
        ELSE continue(normal_quadtree_pass(q, pix, wr).branch)

\* one pass of `while queue:` in normal_quadtree
NormalQuadtreeStep ==
    /\ pc = "loop" /\ ~mixed_raster /\ ~fast_quadtree /\ queue # <<>>
    /\ \E p \in { normal_quadtree_pass(queue, pixels, writes) } :
          /\ queue' = p.branch.queue
          /\ pixels' = p.branch.pixels /\ writes' = p.branch.writes
          /\ raised' = p.branch.raised
          /\ ops' = ops \cup {"scan"} \cup p.branch.ops
          /\ scans' = Append(scans, [tl |-> Head(queue).tl, br |-> Head(queue).br,
                                      result |-> p.result])
          /\ pc' = IF p.branch.raised # "" THEN "error" ELSE pc
    /\ UNCHANGED <<size, raster, mixed_raster, fast_quadtree, calc, seen,
                   interval, result_list, temp_interval, node, array, call>>
    /\ UNCHANGED <<ev, app>>

\* `if split: ... elif isMandelbrot: ...` of the mixed paths for the region
\* quadtree and its row result, over the buffer pix, the counts wr and the
\* array sn: the queue, the regions added to it, the buffers, the exception
\* raised ("" if none) and the operations performed
mixed_branch(q, quadtree, result, pix, wr, sn) ==
    IF result[1] # 0 THEN
        LET extend(sp) ==
                [queue |-> IF sp.raised # "" THEN Tail(q)
                           ELSE Tail(q) \o sp.self.children,
                 children |-> IF sp.raised # "" THEN <<>> ELSE sp.self.children,
                 pixels |-> pix, writes |-> wr, seen |-> sn,
                 raised |-> sp.raised, ops |-> {"split"}]
        IN  extend(split(quadtree, 1))
    ELSE IF result[2] # 0 THEN
        LET filled(f, g) ==
                [queue |-> Tail(q), children |-> <<>>,
                 pixels |-> f.pixels, writes |-> f.writes,
                 seen |-> IF f.raised # "" THEN sn ELSE g.array,
                 raised |-> IF f.raised # "" THEN f.raised ELSE g.raised,
                 ops |-> {"fill"}]
        IN  filled(fill_pixels(quadtree, pix, wr, SubSeq(result, 3, Len(result))),
                   fill_array(quadtree, sn, TRUE, 1))
    ELSE
        [queue |-> Tail(q), children |-> <<>>, pixels |-> pix, writes |-> wr,
         seen |-> sn, raised |-> "", ops |-> {}]

\* mixed_quadtree from its first dequeue to the end: the buffers when
\* compute_raster has run after the loop, or when an exception ended it
RECURSIVE mixed_quadtree_loop(_, _, _, _)
mixed_quadtree_loop(q, pix, wr, sn) ==
    LET continue(p) ==
            IF p.raised # "" THEN [pixels |-> p.pixels, seen |-> p.seen,
                                   raised |-> p.raised]
            ELSE mixed_quadtree_loop(p.queue, p.pixels, p.writes, p.seen)
        scanned(r) ==
            continue(mixed_branch(q, Head(q), r.result,
                                  assign_events(pix, r.events),
                                  count_events(wr, r.events),
                                  mark_seen(sn, r.seen)))
    IN  IF q = <<>> THEN [pixels |-> compute_raster(pix, sn, wr).pixels,
                          seen |-> sn, raised |-> ""]
        ELSE scanned(calculate_mixed(Head(q).tl, Head(q).br))

\* one pass of `while queue:` in mixed_quadtree
MixedQuadtreeStep ==
    /\ pc = "loop" /\ mixed_raster /\ ~fast_quadtree /\ queue # <<>>
    /\ \E r \in { calculate_mixed(Head(queue).tl, Head(queue).br) } :
       \E p \in { mixed_branch(queue, Head(queue), r.result,
                               assign_events(pixels, r.events),
                               count_events(writes, r.events),
                               mark_seen(seen, r.seen)) } :
          /\ scans' = Append(scans, [tl |-> Head(queue).tl, br |-> Head(queue).br,
                                      result |-> r.result])
          /\ queue' = p.queue
          /\ pixels' = p.pixels /\ writes' = p.writes /\ seen' = p.seen
          /\ raised' = p.raised
          /\ ops' = ops \cup {"scan"} \cup p.ops
          /\ pc' = IF p.raised # "" THEN "error" ELSE pc
    /\ UNCHANGED <<size, raster, mixed_raster, fast_quadtree, calc,
                   interval, result_list, temp_interval, node, array, call>>
    /\ UNCHANGED <<ev, app>>

\* the scans of a batch with the rows they returned
scans_of(intervals, results) ==
    [k \in 1..Len(intervals) |->
        [tl |-> intervals[k][1], br |-> intervals[k][2], result |-> results[k].result]]

\* generate, plain batched path: `result_list = compute_fast_quadtree(...)`
\* and `temp_interval = []` at the head of a pass of `while queue:`
FastQuadtreeScan ==
    /\ pc = "loop" /\ ~mixed_raster /\ fast_quadtree /\ queue # <<>>
    /\ \E rs \in { compute_fast_quadtree(interval) } :
          /\ result_list' = [k \in 1..Len(rs) |-> rs[k].result]
          /\ pixels' = assign_events(pixels, all_events(rs, 1))
          /\ writes' = count_events(writes, all_events(rs, 1))
          /\ scans' = scans \o scans_of(interval, rs)
    /\ temp_interval' = <<>>
    /\ ops' = ops \cup {"scan"}
    /\ pc' = "apply"
    /\ UNCHANGED <<size, raster, mixed_raster, fast_quadtree, calc, seen, queue,
                   interval, qtvars>>
    /\ UNCHANGED <<ev, app>>

\* generate, plain batched path: one pass of `for i, result in
\* enumerate(result_list):`, and `interval = np.array(temp_interval)` after
\* the last one
FastQuadtreeApply ==
    /\ pc = "apply" /\ ~mixed_raster /\ result_list # <<>>
    /\ IF queue = <<>> THEN
          /\ pc' = "error" /\ raised' = "IndexError"
          /\ UNCHANGED <<queue, pixels, writes, ops, temp_interval, interval, result_list>>
       ELSE
          \E p \in { plain_branch(queue, Head(queue), Head(result_list),
                                  pixels, writes) } :
             /\ queue' = p.queue
             /\ pixels' = p.pixels /\ writes' = p.writes
             /\ ops' = ops \cup p.ops
             /\ raised' = p.raised
             /\ temp_interval' = temp_interval \o intervals_of(p.children)
             /\ result_list' = Tail(result_list)
             /\ interval' = IF p.raised = "" /\ Tail(result_list) = <<>>
                            THEN temp_interval \o intervals_of(p.children) ELSE interval
             /\ pc' = IF p.raised # "" THEN "error"
                      ELSE IF Tail(result_list) = <<>> THEN "loop" ELSE pc
    /\ UNCHANGED <<size, raster, mixed_raster, fast_quadtree, calc, seen, scans,
                   node, array, call>>
    /\ UNCHANGED <<ev, app>>
\* generate, mixed batched path: `result_list = fast_mixed_quadtree(...)`.
\* A returned row that does not fit results makes the assignment inside the
\* parallel loop fail; the failure either ends generate() or is lost in the
\* worker, which leaves that row of results at zero.
FastMixedScan ==
    /\ pc = "loop" /\ mixed_raster /\ fast_quadtree /\ queue # <<>>
    /\ \E rs \in { fast_mixed_quadtree(interval) } :
          /\ pixels' = assign_events(pixels, all_events(rs, 1))
          /\ writes' = count_events(writes, all_events(rs, 1))
          /\ seen' = mark_seen(seen, UNION { rs[k].seen : k \in 1..Len(rs) })
          /\ scans' = scans \o [k \in 1..Len(rs) |->
                                      [tl |-> interval[k][1], br |-> interval[k][2],
                                       result |-> rs[k].returned]]
          /\ \/ /\ result_list' = [k \in 1..Len(rs) |-> rs[k].result]
                /\ pc' = "apply"
                /\ UNCHANGED raised
             \/ /\ \E k \in 1..Len(rs) : Len(rs[k].returned) # 4
                /\ result_list' = <<>>
                /\ pc' = "error"
                /\ raised' = "ValueError"
    /\ temp_interval' = <<>>
    /\ ops' = ops \cup {"scan"}
    /\ UNCHANGED <<size, raster, mixed_raster, fast_quadtree, calc, queue,
                   interval, node, array, call>>
    /\ UNCHANGED <<ev, app>>

\* generate, mixed batched path: one pass of `for i, result in
\* enumerate(result_list):`, and `interval = np.array(temp_interval)` after
\* the last one
FastMixedApply ==
    /\ pc = "apply" /\ mixed_raster /\ result_list # <<>>
    /\ IF queue = <<>> THEN
          /\ pc' = "error" /\ raised' = "IndexError"
          /\ UNCHANGED <<queue, pixels, writes, seen, ops, temp_interval, interval,
                         result_list>>
       ELSE
          \E p \in { mixed_branch(queue, Head(queue), Head(result_list),
                                  pixels, writes, seen) } :
             /\ queue' = p.queue
             /\ pixels' = p.pixels /\ writes' = p.writes /\ seen' = p.seen
             /\ ops' = ops \cup p.ops
             /\ raised' = p.raised
             /\ temp_interval' = temp_interval \o intervals_of(p.children)
             /\ result_list' = Tail(result_list)
             /\ interval' = IF p.raised = "" /\ Tail(result_list) = <<>>
                            THEN temp_interval \o intervals_of(p.children) ELSE interval
             /\ pc' = IF p.raised # "" THEN "error"
                      ELSE IF Tail(result_list) = <<>> THEN "loop" ELSE pc
    /\ UNCHANGED <<size, raster, mixed_raster, fast_quadtree, calc, scans,
                   node, array, call>>
    /\ UNCHANGED <<ev, app>>

\* the queue is empty: the mixed paths run compute_raster over the cells not
\* seen, and generate() returns
Finish ==
    /\ pc = "loop" /\ queue = <<>>
    /\ IF mixed_raster THEN
          \E r \in { compute_raster(pixels, seen, writes) } :
             /\ pixels' = r.pixels /\ writes' = r.writes
             /\ ops' = ops \cup {"raster"}
       ELSE UNCHANGED <<pixels, writes, ops>>
    /\ pc' = "done"
    /\ UNCHANGED <<size, raster, mixed_raster, fast_quadtree, calc, seen, queue,
                   interval, result_list, temp_interval, scans, qtvars>>
    /\ UNCHANGED <<ev, app>>

Next ==
    \/ GenerateRaster
    \/ RootSplit
    \/ NormalQuadtreeStep
    \/ MixedQuadtreeStep
    \/ FastQuadtreeScan
    \/ FastQuadtreeApply
    \/ FastMixedScan
    \/ FastMixedApply
    \/ Finish

Spec == Init /\ [][Next]_vars

----------------------------------------------------------------------------
(* normal_quadtree with the pending regions taken in any order: the body   *)
(* of `while queue:` is run on any region of the queue, not on the         *)
(* leftmost one only                                                       *)

\* the queue q with its k-th region moved to the front
taken_first(q, k) == << q[k] >> \o SubSeq(q, 1, k - 1) \o SubSeq(q, k + 1, Len(q))

InitAnyOrder ==
    /\ Init
    /\ ~raster /\ ~mixed_raster /\ ~fast_quadtree

\* the body of `while queue:` in normal_quadtree, run on the k-th pending
\* region
NormalQuadtreeAnyStep ==
    /\ pc = "loop" /\ ~mixed_raster /\ ~fast_quadtree /\ queue # <<>>
    /\ \E k \in 1..Len(queue) :
       \E p \in { normal_quadtree_pass(taken_first(queue, k), pixels, writes) } :
          /\ queue' = p.branch.queue
          /\ pixels' = p.branch.pixels /\ writes' = p.branch.writes
          /\ raised' = p.branch.raised
          /\ ops' = ops \cup {"scan"} \cup p.branch.ops
          /\ scans' = Append(scans, [tl |-> queue[k].tl, br |-> queue[k].br,
                                      result |-> p.result])
          /\ pc' = IF p.branch.raised # "" THEN "error" ELSE pc
    /\ UNCHANGED <<size, raster, mixed_raster, fast_quadtree, calc, seen,
                   interval, result_list, temp_interval, node, array, call>>
    /\ UNCHANGED <<ev, app>>

NextAnyOrder ==
    \/ RootSplit
    \/ NormalQuadtreeAnyStep
    \/ Finish

SpecAnyOrder == InitAnyOrder /\ [][NextAnyOrder]_vars

----------------------------------------------------------------------------
(* Accelerated/calculation.py and Normal/util.py: the point evaluator      *)
(*                                                                         *)
(* The coordinates handed to calculate are multiples of 1/2.  Every value  *)
(* the orbit loop computes from them is then a dyadic rational that a      *)
(* float64 holds exactly, written here <<n, e>> for n / 2^e, with n odd or *)
(* e = 0.  log and sqrt have no such form: of distance_estimate the model  *)
(* keeps whether it was computed, not its value.                           *)

RECURSIVE Pow2(_)
Pow2(e) == IF e = 0 THEN 1 ELSE 2 * Pow2(e - 1)

RECURSIVE DNorm(_)
DNorm(a) == IF a[2] > 0 /\ a[1] % 2 = 0 THEN DNorm(<<a[1] \div 2, a[2] - 1>>) ELSE a

DMaxExp(a, b) == IF a[2] >= b[2] THEN a[2] ELSE b[2]

\* a + b, a - b, a * b, a <= b on float values
DAdd(a, b) ==
    DNorm(<<a[1] * Pow2(DMaxExp(a, b) - a[2]) + b[1] * Pow2(DMaxExp(a, b) - b[2]),
            DMaxExp(a, b)>>)
DSub(a, b) == DAdd(a, <<0 - b[1], b[2]>>)
DMul(a, b) == DNorm(<<a[1] * b[1], a[2] + b[2]>>)
DLeq(a, b) == a[1] * Pow2(DMaxExp(a, b) - a[2]) <= b[1] * Pow2(DMaxExp(a, b) - b[2])

\* the literal 0.25
quarter == <<1, 2>>

\* in_main_body(x, y), the same in both packages
in_main_body(x0, y0) ==
    LET body(q) == DLeq(DMul(q, DSub(DAdd(q, x0), quarter)),
                        DMul(DMul(quarter, y0), y0))
    IN  body(DAdd(DMul(DSub(x0, quarter), DSub(x0, quarter)), DMul(y0, y0)))

\* `if period > period_checking:` compares with True, that is 1, in the
\* accelerated package; the other package has `if period > 20:`
period_limit_accelerated == 1
period_limit_normal == 20

\* the statements of one pass of the orbit loop up to `iterations += 1`
orbit_step(e) ==
    LET squares(x, y) ==
            [e EXCEPT !.x = x, !.y = y,
                      !.x2 = DMul(x, x), !.y2 = DMul(y, y),
                      !.w = DMul(DAdd(x, y), DAdd(x, y)),
                      !.iterations = e.iterations + 1,
                      !.passes = e.passes + 1]
    IN  squares(DAdd(DSub(e.x2, e.y2), e.x0),
                DAdd(DSub(DSub(e.w, e.x2), e.y2), e.y0))

\* period_check comparing the imaginary parts only
period_check_y_only(e, limit) ==
    IF ~e.period_checking THEN e
    ELSE IF e.y_old = e.y THEN
        [e EXCEPT !.iterations = e.max_iterations, !.pc = "after", !.ended_by = "period"]
    ELSE IF e.period + 1 > limit THEN
        [e EXCEPT !.period = 0, !.x_old = e.x, !.y_old = e.y]
    ELSE [e EXCEPT !.period = e.period + 1]

\* `if period_checking:` and what follows it in a pass of the orbit loop
period_check(e, limit) ==
    IF ~e.period_checking THEN e
    ELSE IF e.x_old = e.x /\ e.y_old = e.y THEN
        [e EXCEPT !.iterations = e.max_iterations, !.pc = "after", !.ended_by = "period"]
    ELSE IF e.period + 1 > limit THEN
        [e EXCEPT !.period = 0, !.x_old = e.x, !.y_old = e.y]
    ELSE [e EXCEPT !.period = e.period + 1]

\* escape_radius * escape_radius
escape_radius_squared(e) == DMul(e.escape_radius, e.escape_radius)

\* x2 + y2 >= escape_radius_squared
escaped(e) == DLeq(escape_radius_squared(e), DAdd(e.x2, e.y2))

\* one pass of `for i in range(max_iterations):` in Accelerated.calculation
accelerated_pass(e) ==
    LET stepped(s) ==
            IF escaped(s) THEN [s EXCEPT !.pc = "after", !.ended_by = "escape"]
            ELSE period_check(s, period_limit_accelerated)
    IN  stepped(orbit_step(e))

\* one pass of `while x2 + y2 <= escape_radius_squared and iterations <
\* max_iterations:` in Normal.util
normal_pass(e) == period_check(orbit_step(e), period_limit_normal)

\* the condition of that while loop
normal_loop_condition(e) ==
    /\ DLeq(DAdd(e.x2, e.y2), escape_radius_squared(e))
    /\ e.iterations < e.max_iterations

MaxIterations == 3      \* max_iterations is in 0..MaxIterations
MaxCalls == 2           \* calculate is called up to MaxCalls times on a point

\* the points calculate is called on: x0 in [-2, 1], y0 in [-1, 1], in halves
EvalPoints == { <<DNorm(<<a, 1>>), DNorm(<<b, 1>>)>> : a \in (0 - 4)..2, b \in (0 - 2)..2 }

\* the locals of calculate as they are set before the orbit loop
entry(e) ==
    [e EXCEPT !.x = <<0, 0>>, !.y = <<0, 0>>, !.x2 = <<0, 0>>, !.y2 = <<0, 0>>,
              !.w = <<0, 0>>, !.x_old = <<0, 0>>, !.y_old = <<0, 0>>,
              !.period = 0, !.iterations = 0,
              !.passes = 0, !.ended_by = "", !.returned = <<>>]

\* what calculate returns: the arguments of the colour scheme, which fix
\* the colour, and the in-set flag
result(iteration, distance_estimate, final, flag) ==
    [iteration |-> iteration, distance_estimate |-> distance_estimate,
     final |-> final, in_set |-> flag]

\* main_body_result with the orbit's starting count as iteration
main_body_result_zero(e) ==
    result(0, IF e.impl = "accelerated" THEN "0.0" ELSE "None", <<e.x0, e.y0>>, TRUE)

\* what calculate returns for a point of the main body: the colour of
\* iteration = max_iterations, with the placeholder of its package as
\* distance estimate, and the flag set
main_body_result(e) ==
    result(e.max_iterations, IF e.impl = "accelerated" THEN "0.0" ELSE "None",
           <<e.x0, e.y0>>, TRUE)

\* final_result with the distance estimate computed whatever the count
final_result_always_estimated(e) ==
    result(e.iterations, "computed", <<e.x, e.y>>, e.iterations = e.max_iterations)

\* what calculate returns after the orbit loop: distance_estimate is
\* computed `if iterations != max_iterations`, and is otherwise the
\* placeholder of the package; the flag is iterations == max_iterations
final_result(e) ==
    result(e.iterations,
           IF e.iterations # e.max_iterations THEN "computed"
           ELSE IF e.impl = "accelerated" THEN "0.0" ELSE "None",
           <<e.x, e.y>>, e.iterations = e.max_iterations)

\* `if memo is not None: memo[(x0, y0)] = ...` of Normal.util; memo is None
\* (none) or a dict, which holds at most the entry of the point called on
memoize(e, r) == IF e.memo.none THEN e.memo ELSE [e.memo EXCEPT !.dict = << r >>]

\* the orbit loop of calculate from the locals e to its end
RECURSIVE orbit_loop(_)
orbit_loop(e) ==
    IF e.pc # "loop" THEN e
    ELSE IF e.impl = "accelerated"
    THEN IF e.passes < e.max_iterations THEN orbit_loop(accelerated_pass(e)) ELSE e
    ELSE IF normal_loop_condition(e) THEN orbit_loop(normal_pass(e)) ELSE e

\* calculate on the arguments held in e, without a memo: what it returns
calculate(e) ==
    IF in_main_body(e.x0, e.y0) THEN main_body_result(e)
    ELSE final_result(orbit_loop([entry(e) EXCEPT !.pc = "loop"]))

InitEval ==
    /\ \E p \in EvalPoints, m \in 0..MaxIterations, pchk \in BOOLEAN,
          impl \in {"accelerated", "normal"}, none \in BOOLEAN :
          /\ impl = "accelerated" => none
          /\ ev = entry([impl |-> impl, x0 |-> p[1], y0 |-> p[2],
                         max_iterations |-> m, escape_radius |-> <<2, 0>>,
                         period_checking |-> pchk,
                         memo |-> [none |-> none, dict |-> <<>>],
                         x |-> <<0, 0>>, y |-> <<0, 0>>, x2 |-> <<0, 0>>,
                         y2 |-> <<0, 0>>, w |-> <<0, 0>>, x_old |-> <<0, 0>>,
                         y_old |-> <<0, 0>>, period |-> 0, iterations |-> 0,
                         passes |-> 0, ended_by |-> "", returned |-> <<>>,
                         pc |-> "call", calls |-> 1])
    /\ node = QuadTree(<<0, 0>>, <<1, 1>>) /\ array = <<>> /\ call = NoCall
    /\ raised = ""
    /\ size = <<1, 1>> /\ raster = FALSE /\ mixed_raster = FALSE /\ fast_quadtree = FALSE
    /\ calc = <<>> /\ pixels = <<>> /\ seen = <<>> /\ queue = <<>> /\ interval = <<>>
    /\ result_list = <<>> /\ temp_interval = <<>> /\ pc = "idle" /\ writes = <<>>
    /\ ops = {} /\ scans = <<>>
    /\ app = <<>>

\* Normal.util.calculate: `if memo is not None and (x0, y0) in memo:`
MemoHit ==
    /\ ev.pc = "call" /\ ~ev.memo.none /\ ev.memo.dict # <<>>
    /\ ev' = [ev EXCEPT !.returned = ev.memo.dict[1], !.pc = "returned"]
    /\ UNCHANGED <<qtvars, rvars, app>>

\* `if in_main_body(x0, y0):` taken
MainBody ==
    /\ ev.pc = "call" /\ (ev.memo.none \/ ev.memo.dict = <<>>)
    /\ in_main_body(ev.x0, ev.y0)
    /\ \E r \in { main_body_result(ev) } :
          ev' = [ev EXCEPT !.returned = r, !.memo = memoize(ev, r),
                           !.ended_by = "main_body", !.pc = "returned"]
    /\ UNCHANGED <<qtvars, rvars, app>>

\* `if in_main_body(x0, y0):` not taken: on to the orbit loop
EnterLoop ==
    /\ ev.pc = "call" /\ (ev.memo.none \/ ev.memo.dict = <<>>)
    /\ ~in_main_body(ev.x0, ev.y0)
    /\ ev' = [ev EXCEPT !.pc = "loop"]
    /\ UNCHANGED <<qtvars, rvars, app>>

\* one pass of the orbit loop of Accelerated.calculation.calculate
AcceleratedPass ==
    /\ ev.pc = "loop" /\ ev.impl = "accelerated"
    /\ ev.passes < ev.max_iterations
    /\ ev' = accelerated_pass(ev)
    /\ UNCHANGED <<qtvars, rvars, app>>

\* one pass of the orbit loop of Normal.util.calculate
NormalPass ==
    /\ ev.pc = "loop" /\ ev.impl = "normal"
    /\ normal_loop_condition(ev)
    /\ ev' = normal_pass(ev)
    /\ UNCHANGED <<qtvars, rvars, app>>

\* the orbit loop ends without a break: range(max_iterations) is used up, or
\* the while condition is false
LoopExit ==
    /\ ev.pc = "loop"
    /\ IF ev.impl = "accelerated" THEN ev.passes = ev.max_iterations
       ELSE ~normal_loop_condition(ev)
    /\ ev' = [ev EXCEPT !.pc = "after",
                        !.ended_by = IF ev.impl = "normal"
                                        /\ ~DLeq(DAdd(ev.x2, ev.y2), escape_radius_squared(ev))
                                     THEN "escape" ELSE "max"]
    /\ UNCHANGED <<qtvars, rvars, app>>

\* from `z = x2 + y2` to the return
Return ==
    /\ ev.pc = "after"
    /\ \E r \in { final_result(ev) } :
          ev' = [ev EXCEPT !.returned = r, !.memo = memoize(ev, r), !.pc = "returned"]
    /\ UNCHANGED <<qtvars, rvars, app>>

\* calculate is called again on the same point, with the same memo
CallAgain ==
    /\ ev.pc = "returned" /\ ev.calls < MaxCalls
    /\ ev' = [entry(ev) EXCEPT !.pc = "call", !.calls = ev.calls + 1]
    /\ UNCHANGED <<qtvars, rvars, app>>

NextEval ==
    \/ MemoHit
    \/ MainBody
    \/ EnterLoop
    \/ AcceleratedPass
    \/ NormalPass
    \/ LoopExit
    \/ Return
    \/ CallAgain

SpecEval == InitEval /\ [][NextEval]_vars

----------------------------------------------------------------------------
(* main.py and runner_functions.py: from the configuration to the colour   *)
(* scheme a render uses                                                    *)

MaxSchemeId == 6    \* colour scheme ids are in -4..MaxSchemeId

SchemeIds == (0 - 4)..MaxSchemeId

\* the branches of determine_colorscheme
determine_colorscheme(color_scheme) ==
    IF color_scheme = 0 THEN "grayscale"
    ELSE IF color_scheme = 1 THEN "simple_hsv"
    ELSE IF color_scheme = 2 THEN "quilt_coloring"
    ELSE IF color_scheme = 3 THEN "colormap_coloring"
    ELSE "grayscale"

\* the list color_scheme of Normal.coloring
color_scheme == << "grayscale", "simple_hsv", "quilt_coloring" >>

\* color_scheme[i] on that list: a negative index counts from the end
list_index(i) == IF i < 0 THEN i + Len(color_scheme) + 1 ELSE i + 1

\* u1.cast_python_value(color_scheme), that is np.uint8(color_scheme): a
\* value outside 0..255 wraps around or raises OverflowError, depending on
\* the numpy installed
cast_python_value(id) ==
    IF id \in 0..255 THEN { [raised |-> "", value |-> id] }
    ELSE { [raised |-> "", value |-> id % 256],
           [raised |-> "OverflowError", value |-> id] }

\* a run starts in main(), with or without a config.yml that may set
\* color_scheme, or in create_image() with a config made by the caller
InitMain ==
    /\ \E start \in {"main", "create_image"}, file \in BOOLEAN, present \in BOOLEAN,
          id \in SchemeIds, colormap_ok \in BOOLEAN, accelerated \in BOOLEAN :
          /\ start = "create_image" => (file /\ present /\ colormap_ok)
          /\ app = [entry |-> start, file |-> file,
                    user_config |-> [has_color_scheme |-> present, color_scheme |-> id],
                    colormap_ok |-> colormap_ok,
                    accelerated |-> IF start = "main" /\ ~file THEN TRUE ELSE accelerated,
                    requested |-> IF start = "main" /\ ~(file /\ present) THEN 0 ELSE id,
                    color_scheme |-> IF start = "create_image" THEN id ELSE 0,
                    pc |-> IF start = "main" THEN "set_photo_config" ELSE "create_image",
                    raised |-> "", scheme |-> ""]
    /\ ev = <<>>
    /\ node = QuadTree(<<0, 0>>, <<1, 1>>) /\ array = <<>> /\ call = NoCall
    /\ raised = ""
    /\ size = <<1, 1>> /\ raster = FALSE /\ mixed_raster = FALSE /\ fast_quadtree = FALSE
    /\ calc = <<>> /\ pixels = <<>> /\ seen = <<>> /\ queue = <<>> /\ interval = <<>>
    /\ result_list = <<>> /\ temp_interval = <<>> /\ pc = "idle" /\ writes = <<>>
    /\ ops = {} /\ scans = <<>>

\* config['color_scheme'] after the keys of config.yml have been copied
loaded_color_scheme(a) ==
    IF a.file /\ a.user_config.has_color_scheme THEN a.user_config.color_scheme ELSE 0

\* set_photo_config: the defaults without a config.yml; with one, its
\* color_scheme, checked against [0, 1, 2, 3], and the colormap of scheme 3
SetPhotoConfig ==
    /\ app.pc = "set_photo_config"
    /\ app' = IF ~app.file THEN
                 [app EXCEPT !.color_scheme = 0, !.pc = "create_image"]
              ELSE IF loaded_color_scheme(app) \notin {0, 1, 2, 3} THEN
                 [app EXCEPT !.color_scheme = loaded_color_scheme(app), !.pc = "raised",
                             !.raised = "Incorrect color scheme set. Color scheme must be 0, 1, 2, or 3"]
              ELSE IF loaded_color_scheme(app) = 3 /\ ~app.colormap_ok THEN
                 [app EXCEPT !.color_scheme = 3, !.pc = "raised", !.raised = "colormap"]
              ELSE
                 [app EXCEPT !.color_scheme = loaded_color_scheme(app), !.pc = "create_image"]
    /\ UNCHANGED <<qtvars, rvars, ev>>

\* create_image, `if config['accelerated']:` taken: the constructor casts
\* the id to u1, and every pixel is coloured through determine_colorscheme
CreateImageAccelerated ==
    /\ app.pc = "create_image" /\ app.accelerated
    /\ \E c \in cast_python_value(app.color_scheme) :
          app' = IF c.raised # "" THEN [app EXCEPT !.pc = "raised", !.raised = c.raised]
                 ELSE [app EXCEPT !.pc = "done", !.scheme = determine_colorscheme(c.value)]
    /\ UNCHANGED <<qtvars, rvars, ev>>

\* create_image, the else branch: id 4 makes a colormap scheme out of the
\* id itself, whose first call fails on len(colormap); any other id is
\* looked up in the list color_scheme
CreateImageNormal ==
    /\ app.pc = "create_image" /\ ~app.accelerated
    /\ app' = IF app.color_scheme = 4 THEN
                 [app EXCEPT !.pc = "raised", !.raised = "TypeError",
                             !.scheme = "colormap_coloring"]
              ELSE IF list_index(app.color_scheme) \in 1..Len(color_scheme) THEN
                 [app EXCEPT !.pc = "done",
                             !.scheme = color_scheme[list_index(app.color_scheme)]]
              ELSE
                 [app EXCEPT !.pc = "raised", !.raised = "IndexError"]
    /\ UNCHANGED <<qtvars, rvars, ev>>

NextMain ==
    \/ SetPhotoConfig
    \/ CreateImageAccelerated
    \/ CreateImageNormal

SpecMain == InitMain /\ [][NextMain]_vars

----------------------------------------------------------------------------
(* Normal/util.py: the border scans of the non-accelerated renderer, each  *)
(* called once on a region of an image                                     *)

MaxSide == 4        \* the images of SpecUtil are up to MaxSide x MaxSide

\* what calculate_quadtree does with the colour c of the k-th pixel it
\* evaluates: the first one becomes border; the bottom pixel of the first
\* column is compared with it unconditionally, every later one under
\* `if not split:`
util_quadtree_visit(st, k, c) ==
    IF k = 1 THEN [st EXCEPT !.border = c]
    ELSE [st EXCEPT !.split = st.split \/ (st.border # c)]

\* the two loops of calculate_quadtree from the k-th evaluation on
RECURSIVE util_quadtree_scan(_, _, _)
util_quadtree_scan(st, events, k) ==
    IF k > Len(events) THEN st
    ELSE util_quadtree_scan(util_quadtree_visit(st, k, events[k].value), events, k + 1)

\* `return split and quad_tree.cols > 3 and quad_tree.rows > 3, border`
util_quadtree_result(st, quad_tree) ==
    [split |-> st.split /\ quad_tree.cols > 3 /\ quad_tree.rows > 3,
     border |-> st.border]

\* Normal.util.calculate_quadtree: what it returns, and the assignments it
\* makes to pixels, in order
util_calculate_quadtree(quad_tree) ==
    IF quad_tree.rows = 1 /\ quad_tree.cols = 1 THEN
        [result |-> [split |-> FALSE,
                     border |-> colour(calc[Y(quad_tree.tl)][X(quad_tree.tl)])],
         events |-> <<>>]
    ELSE
        [result |-> util_quadtree_result(
                        util_quadtree_scan([split |-> FALSE, border |-> <<>>],
                                           border_events(quad_tree.tl, quad_tree.br), 1),
                        quad_tree),
         events |-> border_events(quad_tree.tl, quad_tree.br)]

\* the assignments calculated_mixed_raster_quadtree makes, in order: top,
\* bottom and left pixels go to pixels[row][column]; the right pixel of
\* row j goes to pixels[br[0] - 1][j]
util_mixed_events(tl, br) ==
    [k \in 1..(2 * (X(br) - X(tl)) + 2 * (Y(br) - Y(tl))) |->
        [cell |-> IF k > 2 * (X(br) - X(tl)) /\ (k - 2 * (X(br) - X(tl))) % 2 = 0
                  THEN <<border_visit(tl, br, k)[2], border_visit(tl, br, k)[1]>>
                  ELSE border_visit(tl, br, k),
         value |-> colour(calc[border_visit(tl, br, k)[1]][border_visit(tl, br, k)[2]])]]

\* the index of the first assignment of events that falls outside pix, which
\* raises IndexError; 0 if there is none
first_outside(events, pix) ==
    LET K == { k \in 1..Len(events) :
                 ~(events[k].cell[1] \in DOMAIN pix /\ events[k].cell[2] \in DOMAIN pix[0]) }
    IN  IF K = {} THEN 0 ELSE CHOOSE k \in K : \A m \in K : k <= m

\* what calculated_mixed_raster_quadtree does with an evaluation (in-set
\* flag and colour)
util_mixed_visit(st, row) ==
    [color |-> IF ~st.hasMandelbrot /\ row[1] = 1 THEN colour(row) ELSE st.color,
     isMandelbrot |-> st.isMandelbrot /\ row[1] = 1,
     hasMandelbrot |-> st.hasMandelbrot \/ row[1] = 1]

\* the two loops of calculated_mixed_raster_quadtree from the k-th
\* evaluation on
RECURSIVE util_mixed_scan(_, _, _)
util_mixed_scan(st, visits, k) ==
    IF k > Len(visits) THEN st
    ELSE util_mixed_scan(util_mixed_visit(st, calc[visits[k][1]][visits[k][2]]),
                         visits, k + 1)

\* Normal.util.calculated_mixed_raster_quadtree: what it returns, the
\* assignments it makes to pixels, in order, and the exception that ends it
\* ("" if none)
calculated_mixed_raster_quadtree(quad_tree, pix) ==
    IF quad_tree.rows = 1 /\ quad_tree.cols = 1 THEN
        [result |-> [split |-> FALSE,
                     border |-> colour(calc[Y(quad_tree.tl)][X(quad_tree.tl)])],
         events |-> <<>>, raised |-> ""]
    ELSE
        LET scanned(st, events, stop) ==
                IF stop # 0
                THEN [result |-> [split |-> FALSE, border |-> <<>>],
                      events |-> SubSeq(events, 1, stop - 1), raised |-> "IndexError"]
                ELSE [result |-> [split |-> st.isMandelbrot # st.hasMandelbrot
                                            /\ quad_tree.rows > 3 /\ quad_tree.cols > 3,
                                  border |-> st.color],
                      events |-> events, raised |-> ""]
        IN  scanned(util_mixed_scan([color |-> <<0 - 1, 0 - 1, 0 - 1>>,
                                     isMandelbrot |-> TRUE, hasMandelbrot |-> FALSE],
                                    border_visits(quad_tree.tl, quad_tree.br), 1),
                    util_mixed_events(quad_tree.tl, quad_tree.br),
                    first_outside(util_mixed_events(quad_tree.tl, quad_tree.br), pix))

\* an image, its evaluation table, its buffer of zeros and a region of it
InitUtil ==
    /\ \E w \in 1..MaxSide, h \in 1..MaxSide :
          /\ size = <<w, h>>
          /\ calc \in CalcTables(w, h)
          /\ pixels = zero_pixels(w, h)
          /\ writes = [i \in 0..(h - 1) |-> [j \in 0..(w - 1) |-> 0]]
          /\ \E x0 \in 0..(w - 1), y0 \in 0..(h - 1) :
             \E x1 \in (x0 + 1)..w, y1 \in (y0 + 1)..h :
                node = QuadTree(<<x0, y0>>, <<x1, y1>>)
    /\ raster = FALSE /\ mixed_raster = FALSE /\ fast_quadtree = FALSE
    /\ seen = <<>> /\ queue = <<>> /\ interval = <<>>
    /\ result_list = <<>> /\ temp_interval = <<>>
    /\ pc = "util"
    /\ ops = {} /\ scans = <<>>
    /\ ev = <<>> /\ app = <<>>
    /\ raised = ""
    /\ array = <<>> /\ call = NoCall

\* `split, border = calculate_quadtree(quad_tree, self.pixels, ...)`
UtilCalculateQuadtree ==
    /\ pc = "util"
    /\ \E r \in { util_calculate_quadtree(node) } :
          /\ pixels' = assign_events(pixels, r.events)
          /\ writes' = count_events(writes, r.events)
          /\ scans' = << [tl |-> node.tl, br |-> node.br, result |-> r.result] >>
    /\ ops' = {"calculate_quadtree"}
    /\ pc' = "scanned"
    /\ UNCHANGED <<size, raster, mixed_raster, fast_quadtree, calc, seen, queue,
                   interval, result_list, temp_interval, qtvars>>
    /\ UNCHANGED <<ev, app>>

\* `split, border = calculated_mixed_raster_quadtree(quad_tree, self.pixels, ...)`
UtilCalculatedMixed ==
    /\ pc = "util"
    /\ \E r \in { calculated_mixed_raster_quadtree(node, pixels) } :
          /\ pixels' = assign_events(pixels, r.events)
          /\ writes' = count_events(writes, r.events)
          /\ scans' = << [tl |-> node.tl, br |-> node.br, result |-> r.result] >>
          /\ raised' = r.raised
          /\ pc' = IF r.raised # "" THEN "error" ELSE "scanned"
    /\ ops' = {"calculated_mixed_raster_quadtree"}
    /\ UNCHANGED <<size, raster, mixed_raster, fast_quadtree, calc, seen, queue,
                   interval, result_list, temp_interval, node, array, call>>
    /\ UNCHANGED <<ev, app>>

NextUtil ==
    \/ UtilCalculateQuadtree
    \/ UtilCalculatedMixed

SpecUtil == InitUtil /\ [][NextUtil]_vars

----------------------------------------------------------------------------
(* Geometry used to state the properties *)

\* the cells <<x, y>> of the half-open rectangle [tl, br)
Cells(tl, br) == { <<x, y>> : x \in X(tl)..(X(br) - 1), y \in Y(tl)..(Y(br) - 1) }

CellsOf(q) == Cells(q.tl, q.br)

\* the cells of a rectangle that lie on its first or last row or column
Ring(tl, br) ==
    { c \in Cells(tl, br) :
        X(c) = X(tl) \/ X(c) = X(br) - 1 \/ Y(c) = Y(tl) \/ Y(c) = Y(br) - 1 }

Rect(x0, y0, x1, y1) == <<<<x0, y0>>, <<x1, y1>>>>

Bounds(q) == <<q.tl, q.br>>

PairwiseDisjoint(ch) ==
    \A a \in 1..Len(ch), b \in 1..Len(ch) :
        a # b => CellsOf(ch[a]) \cap CellsOf(ch[b]) = {}

UnionOf(ch) == UNION { CellsOf(ch[a]) : a \in 1..Len(ch) }

\* the inset rectangle of the last call, as left, top, right, bottom
InL == X(call.node.tl) + call.boundary
InT == Y(call.node.tl) + call.boundary
InR == X(call.node.br) - call.boundary
InB == Y(call.node.br) - call.boundary
InCols == InR - InL
InRows == InB - InT

----------------------------------------------------------------------------
(* QuadTree properties, checked under SpecQT *)

SplitRaisesIffEmptyInset ==
    call.op = "split" =>
        /\ (raised = "Cannot split node.") <=> (InCols < 1 \/ InRows < 1)
        /\ raised \in {"", "Cannot split node."}
        /\ raised # "" => node = call.node

\* C6 witness: a split raised on a node that already had children, with an
\* inset that is empty on one axis only
SplitRaisedWitness ==
    /\ call.op = "split" /\ raised = "Cannot split node."
    /\ Len(node.children) = 4
    /\ InCols < 1 /\ InRows >= 1

\* the children of the last split, the parent's border ring and the parent
TilesParent ==
    /\ PairwiseDisjoint(node.children)
    /\ UnionOf(node.children) \cap Ring(node.tl, node.br) = {}
    /\ UnionOf(node.children) \cup Ring(node.tl, node.br) = CellsOf(node)

EvenSquare(n) == node.cols = 2 * n /\ node.rows = 2 * n

\* C7 as stated: for every n >= 1, splitting a 2n x 2n region with inset 1
\* yields 4 children which, with the parent's border ring, tile the region.
SplitEvenSquareTilesFromOne ==
    (call.op = "split" /\ call.boundary = 1 /\ \E n \in 1..MaxCoord : EvenSquare(n)) =>
        /\ raised = ""
        /\ Len(node.children) = 4
        /\ TilesParent

\* C7 amended: the same for every n >= 2 (a 2 x 2 region has an empty inset
\* and split raises).
SplitEvenSquareTilesFromTwo ==
    (call.op = "split" /\ call.boundary = 1 /\ \E n \in 2..MaxCoord : EvenSquare(n)) =>
        /\ raised = ""
        /\ Len(node.children) = 4
        /\ TilesParent

\* C7 witness: a 6 x 6 region was split with inset 1
SplitEvenSquareWitness ==
    /\ call.op = "split" /\ call.boundary = 1 /\ raised = ""
    /\ EvenSquare(3)
    /\ Len(node.children) = 4

\* the rectangle fill_array is to write: rows [y0+b, y1-b), columns [x0+b, x1-b)
InFillRect(i, j) == InT <= i /\ i < InB /\ InL <= j /\ j < InR

ArrayCells(arr) == { <<i, j>> : i \in DOMAIN arr, j \in DOMAIN arr[0] }

\* C8: fill_array(array, value, boundary) with boundary 0 or 1, on an array
\* at least as large as the region's bounds, sets exactly the cells
\* [y0+boundary, y1-boundary) x [x0+boundary, x1-boundary) to value, that is
\* (rows-2*boundary)*(cols-2*boundary) cells or none when that rectangle is
\* empty, and leaves every other cell unchanged.
FillWritesExactlyInset ==
    (/\ call.op = "fill" /\ call.boundary \in {0, 1}
     /\ NumRows(call.array) >= Y(node.br) /\ NumCols(call.array) >= X(node.br)) =>
        /\ raised = ""
        /\ DOMAIN array = DOMAIN call.array
        /\ \A i \in DOMAIN array :
              /\ DOMAIN array[i] = DOMAIN call.array[i]
              /\ \A j \in DOMAIN array[i] :
                    array[i][j] = IF InFillRect(i, j) THEN call.value ELSE call.array[i][j]
        /\ Cardinality({ c \in ArrayCells(array) : InFillRect(c[1], c[2]) })
              = IF InRows > 0 /\ InCols > 0 THEN InRows * InCols ELSE 0

\* C8 witness: a fill with boundary 1 wrote a non-empty rectangle into an
\* array whose ring cells held another value from an earlier fill
FillInsetWitness ==
    /\ call.op = "fill" /\ call.boundary = 1 /\ raised = ""
    /\ NumRows(array) >= Y(node.br) /\ NumCols(array) >= X(node.br)
    /\ InRows >= 1 /\ InCols >= 2
    /\ \E i \in DOMAIN array : \E j \in DOMAIN array[i] :
          ~InFillRect(i, j) /\ array[i][j] # 0 /\ array[i][j] # call.value
    /\ \E i \in DOMAIN array : \E j \in DOMAIN array[i] :
          InFillRect(i, j) /\ call.array[i][j] # call.value

\* C9: fill_array raises, writing no cell, whenever the array has fewer rows
\* than the region's bottom bound or fewer columns than its right bound.
FillRaisesWhenSmallOnEitherAxis ==
    (/\ call.op = "fill"
     /\ (NumRows(call.array) < Y(node.br) \/ NumCols(call.array) < X(node.br))) =>
        /\ raised = "Array too small"
        /\ array = call.array

----------------------------------------------------------------------------
(* Renderer properties, checked under Spec *)

ImageCells == { <<i, j>> : i \in 0..(size[2] - 1), j \in 0..(size[1] - 1) }

\* the colour the point evaluator returns for the pixel in row i, column j
OwnColour(i, j) == colour(calc[i][j])

\* C1: after generate() returns, under every strategy, every cell of the
\* pixel buffer has been written at least once.
EveryPixelWritten ==
    pc = "done" => \A c \in ImageCells : writes[c[1]][c[2]] >= 1

\* what normal_quadtree leaves in the buffer for this image
SequentialPixels ==
    LET root == split(QuadTree(<<0, 0>>, size), 0)
    IN  normal_quadtree_loop(root.self.children, zero_pixels(size[1], size[2]),
                             [i \in 0..(size[2] - 1) |-> [j \in 0..(size[1] - 1) |-> 0]])

\* C2: the batched plain quadtree ends with the same pixel buffer, cell for
\* cell, as the sequential plain quadtree, and like it ends without raising.
BatchedEqualsSequential ==
    (fast_quadtree /\ ~mixed_raster) =>
        /\ pc # "error"
        /\ pc = "done" => /\ SequentialPixels.raised = ""
                          /\ pixels = SequentialPixels.pixels

\* C2 witness: a batched plain render of a 5 x 5 image returned after
\* splitting the 3 x 3 region below the root, whose 1 x 1 child was dequeued
\* and left unwritten
BatchedDoneWitness ==
    /\ pc = "done" /\ fast_quadtree /\ ~mixed_raster
    /\ size = <<5, 5>>
    /\ writes[3][3] = 0
    /\ pixels[2][2] # <<0, 0, 0>>
    /\ \E c \in Ring(<<2, 2>>, <<5, 5>>) : pixels[Y(c)][X(c)] # pixels[2][2]

\* C3: whatever the strategy, when generate() returns every pixel holds the
\* colour the point evaluator returns for that pixel's own coordinates (so
\* the buffers of all strategies are identical).
EveryPixelOwnColour ==
    pc = "done" => \A c \in ImageCells : pixels[c[1]][c[2]] = OwnColour(c[1], c[2])

\* C4: with raster=True and mixed_raster=False generate() performs no
\* quadtree split, border scan or interior fill, and writes every pixel
\* (row i, column j) with the colour evaluated at (x[j], y[i]).
PureRasterOnly ==
    (pc = "done" /\ raster /\ ~mixed_raster) =>
        /\ ops \cap {"split", "scan", "fill"} = {}
        /\ \A c \in ImageCells :
              /\ writes[c[1]][c[2]] >= 1
              /\ pixels[c[1]][c[2]] = OwnColour(c[1], c[2])

\* the colours on the border of a scanned region
BorderColours(sc) == { OwnColour(Y(c), X(c)) : c \in Ring(sc.tl, sc.br) }

\* C10: the plain border scan of a region other than 1 x 1 returns as border
\* colour the colour of the top-left pixel, and split = 1 exactly when some
\* border pixel has another colour and both dimensions are >= 3.
PlainScanResult ==
    ~mixed_raster =>
        \A k \in 1..Len(scans) :
            LET sc == scans[k]
                cols == X(sc.br) - X(sc.tl)
                rows == Y(sc.br) - Y(sc.tl)
                border == SubSeq(sc.result, 2, 4)
            IN  ~(cols = 1 /\ rows = 1) =>
                   /\ Len(sc.result) = 4
                   /\ border = OwnColour(Y(sc.tl), X(sc.tl))
                   /\ sc.result[1] \in {0, 1}
                   /\ (sc.result[1] = 1) <=>
                         (/\ \E c \in BorderColours(sc) : c # border
                          /\ cols >= 3 /\ rows >= 3)

\* C10 witness: a 3 x 3 region was flagged for split because of one pixel in
\* the middle of its right edge; a 2 x 3 region with two border colours was
\* not
PlainScanWitness ==
    /\ ~mixed_raster /\ pc \in {"loop", "apply"}
    /\ \E k \in 1..Len(scans) :
          /\ scans[k].tl = <<2, 2>> /\ scans[k].br = <<5, 5>>
          /\ scans[k].result[1] = 1
          /\ OwnColour(3, 4) # OwnColour(2, 2)
          /\ \A c \in Ring(<<2, 2>>, <<5, 5>>) :
                c # <<4, 3>> => OwnColour(Y(c), X(c)) = OwnColour(2, 2)

----------------------------------------------------------------------------
(* Leaves, border scans and the mixed strategy, checked under Spec *)

\* a single-pixel region
IsLeaf(q) == q.cols = 1 /\ q.rows = 1

\* the head of the queue is about to be processed: by a pass of `while
\* queue:` in the sequential paths, by a pass of `for i, result in
\* enumerate(result_list):` in the batched ones
ProcessingHead ==
    /\ queue # <<>>
    /\ \/ pc = "loop" /\ ~fast_quadtree
       \/ pc = "apply" /\ result_list # <<>>

\* C11: processing a dequeued 1 x 1 region removes it from the queue, adds no
\* children, and leaves the colour evaluated at its pixel in the pixel buffer.
LeafHoldsOwnColour ==
    [][(ProcessingHead /\ IsLeaf(Head(queue))) =>
          /\ queue' = Tail(queue)
          /\ pixels'[Y(Head(queue).tl)][X(Head(queue).tl)]
                = OwnColour(Y(Head(queue).tl), X(Head(queue).tl))]_vars

\* the regions a step taken from a state with pc = "loop" scans: the head of
\* the queue in the sequential paths, every row of interval in the batched ones
ScannedNow ==
    IF fast_quadtree THEN { interval[k] : k \in 1..Len(interval) }
    ELSE { <<Head(queue).tl, Head(queue).br>> }

\* C12: one border scan of a region other than 1 x 1 assigns each pixel of
\* the region's perimeter exactly once.
ScanWritesPerimeterOnce ==
    [][(pc = "loop" /\ queue # <<>>) =>
          \A reg \in ScannedNow :
              ~(X(reg[2]) - X(reg[1]) = 1 /\ Y(reg[2]) - Y(reg[1]) = 1) =>
                  \A c \in Ring(reg[1], reg[2]) :
                      writes'[Y(c)][X(c)] = writes[Y(c)][X(c)] + 1]_vars

\* the perimeter pixels of a scanned region that the evaluator reports in-set
InSetBorder(sc) == { c \in Ring(sc.tl, sc.br) : calc[Y(c)][X(c)][1] = 1 }

\* C13: the mixed border scan of a region other than 1 x 1 returns split = 1
\* exactly when the border has an in-set and a not-in-set pixel and both
\* dimensions are >= 3, the all-in-set flag = 1 exactly when every border
\* pixel is in-set, and with that flag set the colour of an in-set border pixel.
MixedScanResult ==
    mixed_raster =>
        \A k \in 1..Len(scans) :
            LET sc == scans[k]
                cols == X(sc.br) - X(sc.tl)
                rows == Y(sc.br) - Y(sc.tl)
            IN  ~(cols = 1 /\ rows = 1) =>
                   /\ Len(sc.result) = 5
                   /\ sc.result[1] \in {0, 1} /\ sc.result[2] \in {0, 1}
                   /\ (sc.result[1] = 1) <=>
                         (/\ InSetBorder(sc) # {}
                          /\ InSetBorder(sc) # Ring(sc.tl, sc.br)
                          /\ cols >= 3 /\ rows >= 3)
                   /\ (sc.result[2] = 1) <=> (InSetBorder(sc) = Ring(sc.tl, sc.br))
                   /\ (sc.result[2] = 1) =>
                         \E c \in InSetBorder(sc) :
                             SubSeq(sc.result, 3, 5) = OwnColour(Y(c), X(c))

\* C13 witness: a 3 x 3 region whose 8 border pixels are all in-set and whose
\* centre is not was scanned; the scan reported no split, all in-set and the
\* in-set colour
MixedAllInSetWitness ==
    /\ mixed_raster
    /\ \E k \in 1..Len(scans) :
          /\ scans[k].tl = <<2, 2>> /\ scans[k].br = <<5, 5>>
          /\ InSetBorder(scans[k]) = Ring(<<2, 2>>, <<5, 5>>)
          /\ calc[3][3][1] = 0
          /\ scans[k].result = <<0, 1, 255, 255, 255>>

\* the cells of a scanned region inside its border ring, those fill_array
\* with boundary 1 assigns
Interior(sc) == Cells(<<X(sc.tl) + 1, Y(sc.tl) + 1>>, <<X(sc.br) - 1, Y(sc.br) - 1>>)

\* a scanned region other than 1 x 1 whose scan reported no split
UnsplitScan(sc) ==
    /\ ~(X(sc.br) - X(sc.tl) = 1 /\ Y(sc.br) - Y(sc.tl) = 1)
    /\ sc.result[1] = 0

\* C14: in the sequential mixed strategy, a region that is not split has its
\* interior filled and marked seen if every border pixel is in-set; otherwise
\* the quadtree phase neither writes nor marks its interior, and once
\* generate() has ended each interior cell has been written, once, by the
\* raster pass, with its own evaluated colour.
MixedInteriorHandled ==
    (mixed_raster /\ ~fast_quadtree) =>
        \A k \in 1..Len(scans) :
            UnsplitScan(scans[k]) =>
                IF InSetBorder(scans[k]) = Ring(scans[k].tl, scans[k].br) THEN
                    \A c \in Interior(scans[k]) :
                        /\ seen[Y(c)][X(c)]
                        /\ writes[Y(c)][X(c)] >= 1
                        /\ pixels[Y(c)][X(c)] = SubSeq(scans[k].result, 3, 5)
                ELSE
                    \A c \in Interior(scans[k]) :
                        /\ ~seen[Y(c)][X(c)]
                        /\ pc = "loop" => writes[Y(c)][X(c)] = 0
                        /\ pc \in {"done", "error"} =>
                              /\ writes[Y(c)][X(c)] = 1
                              /\ pixels[Y(c)][X(c)] = OwnColour(Y(c), X(c))

\* C15: the raster pass over a full-size seen mask assigns pixel (i, j), with
\* its evaluated colour, exactly when seen[i, j] is false at the start of the
\* pass; it leaves the other pixels and the seen mask as they are.
RasterFallbackFrame ==
    [][(pc = "loop" /\ queue = <<>> /\ mixed_raster) =>
          /\ seen' = seen
          /\ \A c \in ImageCells :
                IF seen[c[1]][c[2]]
                THEN /\ pixels'[c[1]][c[2]] = pixels[c[1]][c[2]]
                     /\ writes'[c[1]][c[2]] = writes[c[1]][c[2]]
                ELSE /\ pixels'[c[1]][c[2]] = OwnColour(c[1], c[2])
                     /\ writes'[c[1]][c[2]] = writes[c[1]][c[2]] + 1]_vars

\* C15 witness: the raster pass of a mixed render has written the unseen
\* interior pixel of the unfilled 3 x 3 region of a 5 x 5 image, and has
\* not written the seen pixel above it, which the border scan wrote once
RasterFallbackWitness ==
    /\ pc = "done" /\ mixed_raster /\ size = <<5, 5>>
    /\ ~seen[3][3] /\ writes[3][3] = 1
    /\ pixels[3][3] = OwnColour(3, 3) /\ pixels[3][3] # <<0, 0, 0>>
    /\ seen[2][3] /\ writes[2][3] = 1

----------------------------------------------------------------------------
(* Point evaluator properties, checked under SpecEval *)

\* a coordinate of the call in quarters
Quarters(a) == a[1] * Pow2(2 - a[2])

\* the main-body inequality q (q + x0 - 0.25) <= 0.25 y0^2 with
\* q = (x0 - 0.25)^2 + y0^2, multiplied by 256, for the point of the call
MainBodyInequality ==
    LET A == Quarters(ev.x0)
        B == Quarters(ev.y0)
        Q == (A - 1) * (A - 1) + B * B
    IN  Q * (Q + 4 * (A - 1)) <= 4 * B * B

\* C16: for a point that satisfies the main-body inequality, with or without
\* period checking, in both packages, calculate returns the in-set flag set
\* and the colour of iteration = max_iterations, without a pass of the orbit loop.
MainBodyShortCircuit ==
    (ev.pc = "returned" /\ MainBodyInequality) =>
        /\ ev.returned.in_set = TRUE
        /\ ev.returned.iteration = ev.max_iterations
        /\ ev.passes = 0

\* C16 witness: the accelerated calculate returned for the point
\* (-0.5, 0.5) of the main body, with period checking and max_iterations 3
MainBodyWitness ==
    /\ ev.pc = "returned" /\ MainBodyInequality
    /\ ev.impl = "accelerated" /\ ev.period_checking /\ ev.max_iterations = 3
    /\ ev.x0 = <<0 - 1, 1>> /\ ev.y0 = <<1, 1>>
    /\ ev.ended_by = "main_body"

\* C17: in a call that is not answered from the memo, the distance estimate
\* is computed exactly when the orbit loop ended by escape with an iteration
\* count below max_iterations; for a main-body point, a count that reached
\* max_iterations and a stop by the periodicity check it is None in the
\* Normal package and the placeholder 0.0 in the Accelerated one.
DistanceEstimateDomain ==
    (ev.pc = "returned" /\ ev.ended_by # "") =>
        /\ (ev.returned.distance_estimate = "computed") <=>
              (ev.ended_by = "escape" /\ ev.returned.iteration < ev.max_iterations)
        /\ ev.returned.distance_estimate # "computed" =>
              ev.returned.distance_estimate
                  = (IF ev.impl = "accelerated" THEN "0.0" ELSE "None")
        /\ ev.ended_by \in {"main_body", "max", "period"} =>
              ev.returned.distance_estimate # "computed"

\* C17 witness: with period checking, the Normal calculate returned for the
\* point (1, 1), which escapes in the second of three iterations, with the
\* estimate computed
DistanceEstimateWitness ==
    /\ ev.pc = "returned" /\ ev.impl = "normal" /\ ev.period_checking
    /\ ev.x0 = <<1, 0>> /\ ev.y0 = <<1, 0>> /\ ev.max_iterations = 3
    /\ ev.ended_by = "escape" /\ ev.passes = 2
    /\ ev.returned.distance_estimate = "computed"

----------------------------------------------------------------------------
(* Colour scheme properties, checked under SpecMain *)

\* C18: a run asked for a colour scheme id outside {0, 1, 2, 3} ends without
\* an exception and colours its pixels with the grayscale scheme.
UnknownSchemeRendersGrayscale ==
    (app.pc \in {"done", "raised"} /\ app.requested \notin {0, 1, 2, 3}) =>
        /\ app.pc = "done" /\ app.raised = ""
        /\ app.scheme = "grayscale"

----------------------------------------------------------------------------
(* Border scans of different regions, checked under Spec *)

\* the cells of pixels and of seen that the border scan of the region sc
\* assigns, as <<row, column>>: those of border_visits, and for a single
\* pixel none in calculate_quadtree and seen[tl[1]][tl[0]] in calculate_mixed
ScanWrites(sc) ==
    IF Y(sc.br) - Y(sc.tl) = 1 /\ X(sc.br) - X(sc.tl) = 1
    THEN IF mixed_raster THEN { <<Y(sc.tl), X(sc.tl)>> } ELSE {}
    ELSE { border_visit(sc.tl, sc.br, k) :
             k \in 1..(2 * (X(sc.br) - X(sc.tl)) + 2 * (Y(sc.br) - Y(sc.tl))) }

\* C19: in a quadtree render the border scans of two different regions,
\* whether of one level of the tree or a region and one of its descendants,
\* assign disjoint sets of cells of pixels and of seen.
ScansWriteDisjointCells ==
    \A k \in 1..Len(scans) : \A m \in (k + 1)..Len(scans) :
        ScanWrites(scans[k]) \cap ScanWrites(scans[m]) = {}

\* C19 witness: a mixed render of a 5 x 5 image has scanned the 3 x 3
\* quadrant, its neighbour of the same level and, after the split, its
\* single-pixel child, whose scan marked the centre cell in seen
ScansDisjointWitness ==
    /\ mixed_raster /\ size = <<5, 5>>
    /\ \E k \in 1..Len(scans) : \E m \in 1..Len(scans) : \E n \in 1..Len(scans) :
          /\ scans[k].tl = <<2, 2>> /\ scans[k].br = <<5, 5>> /\ scans[k].result[1] = 1
          /\ scans[m].tl = <<3, 3>> /\ scans[m].br = <<4, 4>>
          /\ scans[n].tl = <<2, 0>> /\ scans[n].br = <<5, 2>>
          /\ ScanWrites(scans[k]) = Ring(<<2, 2>>, <<5, 5>>)
          /\ ScanWrites(scans[m]) = {<<3, 3>>}
          /\ ScanWrites(scans[n]) # {}
    /\ seen[3][3]

----------------------------------------------------------------------------
(* Order of processing in the plain quadtree, checked under SpecAnyOrder *)

\* C20: whatever the order in which the pending regions of the plain
\* quadtree are processed, the run ends without an exception and with the
\* pixel buffer, cell for cell, that normal_quadtree's FIFO order produces.
AnyOrderEqualsFIFO ==
    /\ pc # "error"
    /\ pc = "done" => \E fifo \in { SequentialPixels } :
                         fifo.raised = "" /\ pixels = fifo.pixels

\* C20 witness: a render of a 5 x 5 image ended after processing the last
\* quadrant first, splitting it, and processing its child before the three
\* other quadrants; the buffer holds two colours
AnyOrderWitness ==
    /\ pc = "done" /\ size = <<5, 5>>
    /\ Len(scans) = 5
    /\ scans[1].tl = <<2, 2>> /\ scans[1].br = <<5, 5>> /\ scans[1].result[1] = 1
    /\ scans[2].tl = <<3, 3>> /\ scans[2].br = <<4, 4>>
    /\ scans[5].tl = <<0, 0>>
    /\ \E c \in ImageCells : pixels[c[1]][c[2]] \notin {pixels[0][0], <<0, 0, 0>>}

----------------------------------------------------------------------------
(* Levels of the batched strategies, checked under Spec *)

\* the regions whose border scan has been made
RegionsScanned == { <<scans[k].tl, scans[k].br>> : k \in 1..Len(scans) }

\* C21: in the batched strategies, while the decisions of a level are being
\* applied every region of that level still queued has been scanned and no
\* region of the next level has; when a level starts, the i-th row of
\* interval is the region the i-th dequeue returns, and none of them has
\* been scanned.
LevelBarrier ==
    fast_quadtree =>
        /\ pc = "apply" =>
              /\ Len(result_list) <= Len(queue)
              /\ \A i \in 1..Len(queue) :
                    (<<queue[i].tl, queue[i].br>> \in RegionsScanned)
                        <=> (i <= Len(result_list))
        /\ pc = "loop" =>
              /\ Len(interval) = Len(queue)
              /\ \A i \in 1..Len(queue) :
                    /\ interval[i] = <<queue[i].tl, queue[i].br>>
                    /\ interval[i] \notin RegionsScanned

\* C21 witness: in a batched plain render of a 6 x 5 image the lower left
\* 3 x 3 quadrant was split while the decision for the lower right one is
\* still to be applied; its child is queued behind it, not scanned
LevelBarrierWitness ==
    /\ fast_quadtree /\ ~mixed_raster /\ pc = "apply" /\ size = <<6, 5>>
    /\ Len(result_list) = 1 /\ Len(queue) = 2
    /\ queue[1].tl = <<3, 2>> /\ queue[1].br = <<6, 5>>
    /\ queue[2].tl = <<1, 3>> /\ queue[2].br = <<2, 4>>
    /\ Len(scans) = 4
    /\ temp_interval = << <<<<1, 3>>, <<2, 4>>>> >>

----------------------------------------------------------------------------
(* The seen array of the mixed strategy, checked under Spec *)

\* C22: in a mixed render seen is created all False, keeps its shape, and
\* no step of the render (border scan, fill, raster pass) turns a True
\* entry back to False.
SeenOnlyGrows ==
    [][mixed_raster =>
          IF seen = <<>>
          THEN seen' = <<>> \/ seen' = zero_seen(size[1], size[2])
          ELSE /\ DOMAIN seen' = DOMAIN seen
               /\ \A i \in DOMAIN seen :
                     /\ DOMAIN seen'[i] = DOMAIN seen[i]
                     /\ \A j \in DOMAIN seen[i] : seen[i][j] => seen'[i][j]]_vars

\* C22 witness: a mixed render returned after scans, a fill and the raster
\* pass, with seen True on a filled cell that no border scan visited
SeenGrowsWitness ==
    /\ mixed_raster /\ pc = "done"
    /\ {"scan", "fill", "raster"} \subseteq ops
    /\ \E i \in DOMAIN seen : \E j \in DOMAIN seen[i] :
          seen[i][j] /\ writes[i][j] = 1
          /\ <<j, i>> \notin UNION { Ring(scans[k].tl, scans[k].br) : k \in 1..Len(scans) }

----------------------------------------------------------------------------
(* Termination, checked under Spec *)

\* C23: for every image size and every table of evaluation results the
\* loop over the queue runs until the queue is empty and generate()
\* returns: no run is ended by an exception, with or without regions left
\* in the queue.
GenerateNeverAborts == pc # "error"

----------------------------------------------------------------------------
(* The batched mixed strategy against the sequential one, checked under    *)
(* Spec                                                                    *)

\* what mixed_quadtree leaves in pixels and seen for this image
SequentialMixed ==
    LET root == split(QuadTree(<<0, 0>>, size), 0)
    IN  mixed_quadtree_loop(root.self.children, zero_pixels(size[1], size[2]),
                            [i \in 0..(size[2] - 1) |-> [j \in 0..(size[1] - 1) |-> 0]],
                            zero_seen(size[1], size[2]))

\* the row calculate_mixed returned for the region q
ReturnedRow(q) ==
    (CHOOSE sc \in { scans[k] : k \in 1..Len(scans) } : sc.tl = q.tl /\ sc.br = q.br).result

\* C24: the rows the batched mixed driver consumes are the rows
\* calculate_mixed returned for the regions of the batch, and the batched
\* mixed render ends as the sequential mixed render of the same image does,
\* with the same pixels and the same seen.
BatchedMixedEqualsSequential ==
    (mixed_raster /\ fast_quadtree) =>
        /\ pc = "apply" =>
              \A i \in 1..Len(result_list) : result_list[i] = ReturnedRow(queue[i])
        /\ pc \in {"done", "error"} =>
              \E sq \in { SequentialMixed } :
                 /\ (pc = "error") <=> (sq.raised # "")
                 /\ pixels = sq.pixels
                 /\ seen = sq.seen

----------------------------------------------------------------------------
(* The border scans of Normal/util.py, checked under SpecUtil *)

\* C25: for a region with cols >= 3 and rows >= 3 whose border pixels do not
\* all have one colour, Normal.util.calculate_quadtree returns split = True,
\* as the accelerated calculate_quadtree does.
UtilSplitsFromThree ==
    (pc = "scanned" /\ ops = {"calculate_quadtree"}
        /\ node.cols >= 3 /\ node.rows >= 3
        /\ Cardinality(BorderColours(node)) > 1) =>
        /\ scans[1].result.split
        /\ calculate_quadtree(node.tl, node.br).result[1] = 1

\* C26: calculated_mixed_raster_quadtree ends without an exception, having
\* assigned to every border cell of the region, and to no other cell, the
\* colour of that cell's own pixel.
UtilMixedWritesOwnCells ==
    (pc \in {"scanned", "error"} /\ ops = {"calculated_mixed_raster_quadtree"}
        /\ ~(node.rows = 1 /\ node.cols = 1)) =>
        /\ pc = "scanned"
        /\ \A c \in ImageCells :
              IF <<c[2], c[1]>> \in Ring(node.tl, node.br)
              THEN writes[c[1]][c[2]] >= 1 /\ pixels[c[1]][c[2]] = OwnColour(c[1], c[2])
              ELSE writes[c[1]][c[2]] = 0

----------------------------------------------------------------------------
(* Periodicity detection and escapes, checked under SpecEval *)

\* C27: the in-set flag calculate returns with period checking is the flag
\* it returns for the same point and max_iterations without it, and
\* conversely.
PeriodCheckingKeepsFlag ==
    ev.pc = "returned" =>
        ev.returned.in_set = calculate([ev EXCEPT !.period_checking = ~ev.period_checking]).in_set

\* C27 witness: for the point -1 and max_iterations = 3 the orbit came back
\* to 0 in its second pass, the period check ended the loop there, and the
\* flag returned is set
PeriodCheckingWitness ==
    /\ ev.pc = "returned" /\ ev.period_checking /\ ev.ended_by = "period"
    /\ ev.x0 = <<0 - 1, 0>> /\ ev.y0 = <<0, 0>>
    /\ ev.max_iterations = 3 /\ ev.passes = 2
    /\ ev.returned.in_set

\* C28: when the orbit of a point outside the main body first reaches
\* x2 + y2 >= escape_radius_squared in pass k of the accelerated calculate,
\* 1 <= k <= max_iterations, the flag returned is 0.
EscapeReturnsNotInSet ==
    (ev.pc = "returned" /\ ev.impl = "accelerated" /\ ev.ended_by = "escape"
        /\ 1 <= ev.passes /\ ev.passes <= ev.max_iterations) =>
        ~ev.returned.in_set

----------------------------------------------------------------------------
(* Splits after the root split, checked under Spec *)

\* the regions of the queue q
QueuedRegions(q) == { <<q[i].tl, q[i].br>> : i \in 1..Len(q) }

\* C29: in a quadtree render, a step of the loop over the queue puts
\* children in the queue only for a region with cols >= 3 and rows >= 3,
\* and never raises 'Cannot split node.'.
SplitOnlyFromThree ==
    [][(pc \in {"loop", "apply"} /\ queue # <<>>) =>
          /\ raised' # "Cannot split node."
          /\ QueuedRegions(queue') \ QueuedRegions(queue) # {} =>
                Head(queue).cols >= 3 /\ Head(queue).rows >= 3]_vars

\* C29 witness: the 3 x 3 quadrant of a 5 x 5 image was split after the
\* root split; its child is in the queue and nothing was raised
SplitFromThreeWitness ==
    /\ pc \in {"loop", "apply"} /\ size = <<5, 5>> /\ raised = ""
    /\ <<<<3, 3>>, <<4, 4>>>> \in QueuedRegions(queue)
    /\ \E k \in 1..Len(scans) :
          scans[k].tl = <<2, 2>> /\ scans[k].br = <<5, 5>> /\ scans[k].result[1] = 1

----------------------------------------------------------------------------
(* Thin regions of the plain strategy, checked under Spec *)

\* the region q has cols <= 2 or rows <= 2 and is not 1 x 1
ThinRegion(q) == (q.cols <= 2 \/ q.rows <= 2) /\ ~(q.cols = 1 /\ q.rows = 1)

\* the cells <<row, column>> the border scan of the region q assigns
ScannedCells(q) ==
    { border_visit(q.tl, q.br, k) : k \in 1..(2 * q.cols + 2 * q.rows) }

\* C30: in the plain strategy, when a region with cols <= 2 or rows <= 2
\* other than a 1 x 1 region is processed, its border scan covers every one
\* of its pixels, the fill that follows writes no cell, the region is not
\* split, and afterwards every pixel of the region holds its own evaluated
\* colour.
ThinRegionHoldsOwnColours ==
    [][(/\ ~mixed_raster /\ queue # <<>> /\ ThinRegion(Head(queue))
        /\ \/ pc = "loop" /\ ~fast_quadtree
           \/ pc = "apply") =>
          /\ ScannedCells(Head(queue))
                = { <<Y(c), X(c)>> : c \in CellsOf(Head(queue)) }
          /\ writes' = IF fast_quadtree THEN writes
                       ELSE count_events(writes,
                               calculate_quadtree(Head(queue).tl,
                                                  Head(queue).br).events)
          /\ queue' = Tail(queue) /\ raised' = ""
          /\ \A c \in CellsOf(Head(queue)) :
                pixels'[Y(c)][X(c)] = OwnColour(Y(c), X(c))]_vars

\* C30 witness: a plain render without raster has processed a thin region
\* other than 1 x 1 one of whose pixels has a colour different from the
\* first border colour, and the pixel holds its own colour
ThinRegionWitness ==
    /\ ~mixed_raster /\ ~raster /\ raised = ""
    /\ \E k \in 1..Len(scans) :
          /\ (X(scans[k].br) - X(scans[k].tl) <= 2
                \/ Y(scans[k].br) - Y(scans[k].tl) <= 2)
          /\ ~(X(scans[k].br) - X(scans[k].tl) = 1
                /\ Y(scans[k].br) - Y(scans[k].tl) = 1)
          /\ <<scans[k].tl, scans[k].br>> \notin QueuedRegions(queue)
          /\ \E c \in Cells(scans[k].tl, scans[k].br) :
                /\ OwnColour(Y(c), X(c))
                      # OwnColour(Y(scans[k].tl), X(scans[k].tl))
                /\ pixels[Y(c)][X(c)] = OwnColour(Y(c), X(c))

====
